---- MODULE Spec2Model ----
(***************************************************************************)
(* Model of the genai-toolbox invocation core.                             *)
(*                                                                         *)
(*   SpecCache   the credential-scoped BigQuery client cache               *)
(*               (internal/sources/bigquery/bigquery.go): concurrent       *)
(*               GetOrCreateClient callers, the passing of time and the    *)
(*               background cleanupLoop.                                   *)
(*   SpecInvoke  one tool invocation of the kuzu-cypher tool               *)
(*               (internal/tools/kuzu/kuzucypher/kuzucypher.go): the       *)
(*               authorization check, ParseParams and the steps of Invoke. *)
(***************************************************************************)
EXTENDS Integers, Sequences, FiniteSets, TLC

(***************************************************************************)
(* Bounds of the model and program constants.                              *)
(***************************************************************************)
\* clients constructed in one behaviour (caps the construction counter)
MaxClients == 2
\* ticker periods over which time is followed
MaxPeriods == 13
\* 55 * time.Minute, the validity of a stored client, in minutes
ExpiryMinutes == 55
\* 5 * time.Minute, the period of the cleanup ticker, in minutes
SweepIntervalMinutes == 5

\* the goroutines that call GetOrCreateClient concurrently
Callers == {"g1", "g2"}
\* the project and location a BigQuery source is configured with
Projects == {"project-a/US", "project-b/EU"}
\* the OAuth access tokens the callers present
Tokens == {"tokA", "tokB"}
NoEntry == [client |-> 0, expiry |-> 0]
NoReturn == [kind |-> "none", client |-> 0]

VARIABLES
  now,        \* time.Now(), in minutes since the cache was created
  clients,    \* ClientCache.clients: token -> cachedClient (NoEntry: absent)
  muWriter,   \* ClientCache.mu: the holder of the write lock, or "none"
  muReaders,  \* ClientCache.mu: the callers holding the read lock
  pc,         \* each caller's position in GetOrCreateClient
  arg,        \* each caller's tokenString argument
  found,      \* each caller's local `found` of the fast path (line 255)
  ret,        \* each caller's last return value
  built,      \* every client constructed so far, in construction order
  closed,     \* per constructed client, how often Close was called on it
  nextTick,   \* the instant the cleanup ticker fires next
  sweepPc,    \* the cleanup goroutine's position
  visited     \* the tokens the current pass of the cleanup loop has met

cacheVars == <<now, clients, muWriter, muReaders, pc, arg, found, ret, built,
               closed, nextTick, sweepPc, visited>>

VARIABLES
  stage,      \* the invocation's position in the pipeline
  tool,       \* the Tool being invoked, as built by Config.Initialize
  data,       \* the caller's raw input: parameter name -> JSON value
  claimsMap,  \* verified auth service -> claim field -> value
  authz,      \* what Tool.Authorized returned: "yes", "no", or "unset"
  params,     \* the ParamValues ParseParams returned
  err,        \* the invocation's error, "none" while there is none
  stmt,       \* newStatement, the text handed to conn.Prepare
  boundMap,   \* newParamMap, the map handed to conn.Execute
  rowsLeft,   \* rows the result still holds (result.HasNext)
  out,        \* the collection Invoke hands back: the rows so far, nil with an error
  calls,      \* the steps the invocation has run, in order
  errMsg,     \* the parts of the error's text, as fmt.Errorf joins them
  tuples,     \* for each row tuple result.Next returned, how often it was closed
  resultCloses, \* how often the result set was closed
  cancelled   \* whether the invocation's context has been cancelled

invokeVars == <<stage, tool, data, claimsMap, authz, params, err, stmt,
                boundMap, rowsLeft, out, calls, errMsg, tuples, resultCloses,
                cancelled>>

VARIABLES
  srcs,       \* the sources built so far: source name -> Source
  build,      \* the last Config.Initialize call and what it returned
  opened,     \* how many backend connections have been opened
  toolsBuilt, \* the tools built so far, by name, each with its source
  connUsed    \* the handle the last Invoke took from its tool

toolVars == <<srcs, build, opened, toolsBuilt, connUsed>>

VARIABLES
  registries, \* the registries of sources and of tools: kind -> factory
  regCall,    \* the last Register call of an init() and what it returned
  panicked    \* whether an init() has panicked

regVars == <<registries, regCall, panicked>>

VARIABLES
  opening     \* the last call that opened a Kuzu database, with its result

VARIABLES
  resolved    \* the last template resolution, with its result

VARIABLES
  project,    \* the project and location of the source each caller acts for
  using       \* whether the caller's invocation is using the client it got

useVars == <<project, using>>

VARIABLES
  chat,       \* what startChatHandler answered: "none" before the request
  chanCap,    \* the capacity of the session's events channel, 0 with no session
  events,     \* the events the channel holds, oldest first
  closes,     \* how often the channel has been closed
  runPc,      \* where the Run goroutine of the session stands
  toolRuns,   \* Run's counter of tool-call attempts
  modelCalls, \* how often Run has asked the model
  toolCalls,  \* the tool calls of the current answer not yet handled
  pending,    \* the events Run sends next, before its next statement
  sent,       \* every event Run has sent, in order
  reader,     \* where the stream handler of the session stands
  received    \* the events the stream handler has written out, in order

engineVars == <<chat, chanCap, events, closes, runPc, toolRuns, modelCalls,
                toolCalls, pending, sent, reader, received>>

otherVars == <<useVars, engineVars>>

buildVars == <<toolVars, regVars, opening, resolved, otherVars>>

vars == <<now, clients, muWriter, muReaders, pc, arg, found, ret, built,
          closed, nextTick, sweepPc, visited, stage, tool, data, claimsMap, authz,
          params, err, stmt, boundMap, rowsLeft, out, calls, errMsg, tuples,
          resultCloses, cancelled, srcs, build, opened, toolsBuilt, connUsed,
          registries, regCall, panicked, opening, resolved, project, using,
          chat, chanCap, events, closes, runPc, toolRuns, modelCalls,
          toolCalls, pending, sent, reader, received>>

(***************************************************************************)
(* The client cache: helpers.                                              *)
(***************************************************************************)
\* found && time.Now().Before(cached.expiry): lines 256 and 268
LiveMutantNoExpiry(e, t) == e # NoEntry
Live(e, t) == e # NoEntry /\ t < e.expiry

\* time.Now().After(cached.expiry): line 235
ExpiredMutantGrace(e, t) == t > e.expiry + SweepIntervalMinutes
ExpiredMutantEarly(e, t) == t + 2 * SweepIntervalMinutes > e.expiry
Expired(e, t) == t > e.expiry

\* the double check under the write lock, lines 267-268
RecheckMutantSkipped(e, t) == FALSE
Recheck(e, t) == Live(e, t)

\* the outcomes of initBigQueryConnectionWithOAuthToken: both objects built,
\* NewClient failed (line 174), or NewService failed after the client was
\* built (line 181)
CreateOutcomes == {"ok", "clientErr", "serviceErr"}

\* lines 273-284: the map after construction ended with `outcome` for token
\* tok, id being the client built
StoreMutantBeforeErrCheck(m, tok, outcome, id, t) ==
  IF outcome = "clientErr" THEN m
  ELSE [m EXCEPT ![tok] = [client |-> id, expiry |-> t + ExpiryMinutes]]
Store(m, tok, outcome, id, t) ==
  IF outcome = "ok"
    THEN [m EXCEPT ![tok] = [client |-> id, expiry |-> t + ExpiryMinutes]]
    ELSE m

CacheInit ==
  /\ now = 0
  /\ clients = [t \in Tokens |-> NoEntry]
  /\ muWriter = "none"
  /\ muReaders = {}
  /\ pc = [c \in Callers |-> "idle"]
  /\ arg = [c \in Callers |-> "tokA"]
  /\ found = [c \in Callers |-> FALSE]
  /\ ret = [c \in Callers |-> NoReturn]
  /\ built = <<>>
  /\ closed = <<>>
  /\ nextTick = SweepIntervalMinutes
  /\ sweepPc = "waiting"
  /\ visited = {}

(***************************************************************************)
(* GetOrCreateClient, lines 245-287, one action per lock section.          *)
(***************************************************************************)
\* line 254: c.mu.RLock() of a new call with token t
RLock(c, t) ==
  /\ pc[c] = "idle"
  /\ ~using[c]
  /\ muWriter = "none"
  /\ muReaders' = muReaders \cup {c}
  /\ pc' = [pc EXCEPT ![c] = "rlocked"]
  /\ arg' = [arg EXCEPT ![c] = t]
  /\ found' = [found EXCEPT ![c] = FALSE]
  /\ ret' = [ret EXCEPT ![c] = NoReturn]
  /\ UNCHANGED <<now, clients, muWriter, built, closed, nextTick, sweepPc>>
  /\ UNCHANGED <<visited, invokeVars, buildVars>>

FastPathMutantRefreshesExpiry(c) ==
  /\ pc[c] = "rlocked"
  /\ muReaders' = muReaders \ {c}
  /\ found' = [found EXCEPT ![c] = clients[arg[c]] # NoEntry]
  /\ IF Live(clients[arg[c]], now)
       THEN /\ ret' = [ret EXCEPT ![c] = [kind |-> "client",
                                         client |-> clients[arg[c]].client]]
            /\ pc' = [pc EXCEPT ![c] = "idle"]
            /\ clients' = [clients EXCEPT ![arg[c]].expiry = now + ExpiryMinutes]
       ELSE /\ ret' = ret
            /\ pc' = [pc EXCEPT ![c] = "missed"]
            /\ clients' = clients
  /\ UNCHANGED <<now, muWriter, arg, built, closed, nextTick, sweepPc>>
  /\ UNCHANGED <<visited, invokeVars, buildVars>>

\* lines 255-260: the fast path under the read lock
FastPath(c) ==
  /\ pc[c] = "rlocked"
  /\ muReaders' = muReaders \ {c}
  /\ found' = [found EXCEPT ![c] = clients[arg[c]] # NoEntry]
  /\ IF Live(clients[arg[c]], now)
       THEN /\ ret' = [ret EXCEPT ![c] = [kind |-> "client",
                                         client |-> clients[arg[c]].client]]
            /\ pc' = [pc EXCEPT ![c] = "idle"]
       ELSE /\ ret' = ret
            /\ pc' = [pc EXCEPT ![c] = "missed"]
  /\ UNCHANGED <<now, clients, muWriter, arg, built, closed, nextTick, sweepPc>>
  /\ UNCHANGED <<visited, invokeVars, buildVars>>

\* line 263: c.mu.Lock()
Lock(c) ==
  /\ pc[c] = "missed"
  /\ muWriter = "none"
  /\ muReaders = {}
  /\ muWriter' = c
  /\ pc' = [pc EXCEPT ![c] = "locked"]
  /\ UNCHANGED <<now, clients, muReaders, arg, found, ret, built, closed,
                 nextTick, sweepPc>>
  /\ UNCHANGED <<visited, invokeVars, buildVars>>

SlowPathMutantKeepsLock(c) ==
  /\ pc[c] = "locked"
  /\ IF Recheck(clients[arg[c]], now)
       THEN /\ ret' = [ret EXCEPT ![c] = [kind |-> "client",
                                         client |-> clients[arg[c]].client]]
            /\ pc' = [pc EXCEPT ![c] = "idle"]
            /\ muWriter' = muWriter
       ELSE /\ ret' = ret
            /\ pc' = [pc EXCEPT ![c] = "creating"]
            /\ muWriter' = muWriter
  /\ UNCHANGED <<now, clients, muReaders, arg, found, built, closed, nextTick,
                 sweepPc>>
  /\ UNCHANGED <<visited, invokeVars, buildVars>>

\* lines 266-270: the double check; a hit returns and the deferred Unlock runs
SlowPath(c) ==
  /\ pc[c] = "locked"
  /\ IF Recheck(clients[arg[c]], now)
       THEN /\ ret' = [ret EXCEPT ![c] = [kind |-> "client",
                                         client |-> clients[arg[c]].client]]
            /\ pc' = [pc EXCEPT ![c] = "idle"]
            /\ muWriter' = "none"
       ELSE /\ ret' = ret
            /\ pc' = [pc EXCEPT ![c] = "creating"]
            /\ muWriter' = muWriter
  /\ UNCHANGED <<now, clients, muReaders, arg, found, built, closed, nextTick,
                 sweepPc>>
  /\ UNCHANGED <<visited, invokeVars, buildVars>>

\* lines 272-287: construction, the store and the deferred Unlock
Create(c, outcome) ==
  /\ pc[c] = "creating"
  /\ outcome = "clientErr" \/ Len(built) < MaxClients
  /\ pc' = [pc EXCEPT ![c] = "idle"]
  /\ muWriter' = "none"
  /\ clients' = Store(clients, arg[c], outcome, Len(built) + 1, now)
  /\ IF outcome = "clientErr"
       THEN UNCHANGED <<built, closed>>
       ELSE /\ built' = Append(built, [token |-> arg[c],
                                       ok |-> outcome = "ok",
                                       project |-> project[c]])
            /\ closed' = Append(closed, 0)
  /\ ret' = [ret EXCEPT ![c] =
               IF outcome = "ok"
                 THEN [kind |-> "client", client |-> Len(built) + 1]
                 ELSE [kind |-> "err", client |-> 0]]
  /\ UNCHANGED <<now, muReaders, arg, found, nextTick, sweepPc>>
  /\ UNCHANGED <<visited, invokeVars, buildVars>>

(***************************************************************************)
(* cleanupLoop, lines 228-242.                                             *)
(***************************************************************************)
\* lines 232-233: the ticker fired and the loop takes the write lock
SweepLockMutantNoLock ==
  /\ sweepPc = "waiting"
  /\ now >= nextTick
  /\ muWriter' = muWriter
  /\ sweepPc' = "sweeping"
  /\ visited' = {}
  /\ UNCHANGED <<now, clients, muReaders, pc, arg, found, ret, built, closed,
                 nextTick>>
  /\ UNCHANGED <<invokeVars, buildVars>>
SweepLock ==
  /\ sweepPc = "waiting"
  /\ now >= nextTick
  /\ muWriter = "none"
  /\ muReaders = {}
  /\ muWriter' = "sweeper"
  /\ sweepPc' = "sweeping"
  /\ visited' = {}
  /\ UNCHANGED <<now, clients, muReaders, pc, arg, found, ret, built, closed,
                 nextTick>>
  /\ UNCHANGED <<invokeVars, buildVars>>

\* the entries the range loop of line 234 has still to meet
Pending == {t \in Tokens : clients[t] # NoEntry /\ t \notin visited}

\* lines 234-239: one turn of the range loop, for whichever entry the map
\* yields next; an expired entry's client is closed and the entry deleted
SweepEntry(t) ==
  /\ sweepPc = "sweeping"
  /\ t \in Pending
  /\ visited' = visited \cup {t}
  /\ IF Expired(clients[t], now)
       THEN /\ closed' = [closed EXCEPT ![clients[t].client] = @ + 1]
            /\ clients' = [clients EXCEPT ![t] = NoEntry]
       ELSE UNCHANGED <<clients, closed>>
  /\ UNCHANGED <<now, muWriter, muReaders, pc, arg, found, ret, built,
                 nextTick, sweepPc>>
  /\ UNCHANGED <<invokeVars, buildVars>>

\* line 240: the loop is through and the lock is released; the goroutine
\* waits for the next tick
SweepUnlock ==
  /\ sweepPc = "sweeping"
  /\ Pending = {}
  /\ muWriter' = IF muWriter = "sweeper" THEN "none" ELSE muWriter
  /\ sweepPc' = "waiting"
  /\ visited' = {}
  /\ nextTick' = nextTick + SweepIntervalMinutes
  /\ UNCHANGED <<now, clients, muReaders, pc, arg, found, ret, built, closed>>
  /\ UNCHANGED <<invokeVars, buildVars>>

\* Time passes, followed from one ticker instant to the next.  The ticker
\* fires every SweepIntervalMinutes (line 229) and a pass that is due runs
\* before time moves on: lock sections are short against the ticker period.
Tick ==
  /\ now < nextTick
  /\ now < MaxPeriods * SweepIntervalMinutes
  /\ now' = nextTick
  /\ UNCHANGED <<clients, muWriter, muReaders, pc, arg, found, ret, built,
                 closed, nextTick, sweepPc, visited>>
  /\ UNCHANGED <<invokeVars, buildVars>>

CacheNext ==
  \/ \E c \in Callers, t \in Tokens : RLock(c, t)
  \/ \E c \in Callers : FastPath(c)
  \/ \E c \in Callers : Lock(c)
  \/ \E c \in Callers : SlowPath(c)
  \/ \E c \in Callers, o \in CreateOutcomes : Create(c, o)
  \/ SweepLock
  \/ \E t \in Tokens : SweepEntry(t)
  \/ SweepUnlock
  \/ Tick

(***************************************************************************)
(* Properties of the client cache.                                         *)
(***************************************************************************)
\* the clients built for token t whose construction succeeded
BuiltFor(t) == {i \in 1..Len(built) : built[i].token = t /\ built[i].ok}

\* caller c finished a call whose fast path found no entry for its token
FirstAccess(c) == pc[c] = "idle" /\ ret[c].kind # "none" /\ ~found[c]

\* C1 as stated: concurrent calls with the same token made while no entry
\* for it exists (within the first validity window, so that nothing has
\* expired) construct exactly one client and every caller receives it.
C1_EveryFirstCallerGetsTheOneClient ==
  now < ExpiryMinutes =>
    \A c1, c2 \in Callers :
      (FirstAccess(c1) /\ FirstAccess(c2) /\ arg[c1] = arg[c2]) =>
        /\ ret[c1].kind = "client"
        /\ ret[c2] = ret[c1]
        /\ Cardinality({i \in 1..Len(built) : built[i].token = arg[c1]}) = 1

C1_OneStoredClient ==
  now < ExpiryMinutes =>
    /\ \A t \in Tokens : Cardinality(BuiltFor(t)) <= 1
    /\ \A c \in Callers :
         (pc[c] = "idle" /\ ret[c].kind = "client") =>
           ret[c].client \in BuiltFor(arg[c])

C1_BuildsOnlyWithoutLiveEntry ==
  \A c \in Callers :
    (pc[c] = "creating" /\ pc'[c] = "idle" /\ Len(built') > Len(built)) =>
      ~Live(clients[arg[c]], now)

\* C1 (amended): while nothing has expired, at most one client is built
\* successfully per credential and every caller that is handed a client is
\* handed that one (a caller whose own construction fails is handed the
\* error); and at any time a client is constructed for a credential only
\* when the cache holds no entry for it that is within its validity window.
C1_AtMostOneClientPerWindow ==
  []C1_OneStoredClient /\ [][C1_BuildsOnlyWithoutLiveEntry]_vars

\* two concurrent first callers with the same token hold the same client
C1_Witness ==
  \E c1, c2 \in Callers :
    /\ c1 # c2 /\ arg[c1] = arg[c2]
    /\ FirstAccess(c1) /\ FirstAccess(c2)
    /\ ret[c1].kind = "client" /\ ret[c2] = ret[c1]
    /\ now < ExpiryMinutes

\* C2: a call that returns a client returns the cache's entry for the token,
\* and that entry's expiry has not passed; a call that meets an entry whose
\* expiry has passed does not return it but goes on to construct a client.
C2_NeverReturnsExpired ==
  [][\A c \in Callers :
       /\ (pc[c] # "idle" /\ pc'[c] = "idle" /\ ret'[c].kind = "client") =>
            /\ clients'[arg[c]].client = ret'[c].client
            /\ now < clients'[arg[c]].expiry
       /\ (/\ pc[c] \in {"rlocked", "locked"} /\ pc'[c] # pc[c]
           /\ clients[arg[c]] # NoEntry /\ now >= clients[arg[c]].expiry) =>
            pc'[c] \in {"missed", "creating"}]_vars

\* a caller holds a fresh client that replaced an expired entry in place,
\* no sweep having removed (and closed) the old one
C2_Witness ==
  \E c \in Callers : \E j \in BuiltFor(arg[c]) :
    /\ pc[c] = "idle" /\ ret[c].kind = "client"
    /\ j < ret[c].client
    /\ closed[j] = 0
    /\ clients[arg[c]].client = ret[c].client

C4_FailureReturnsErrorAndStoresNothing ==
  [][\A c \in Callers :
       (/\ pc[c] = "creating" /\ pc'[c] = "idle"
        /\ ~(Len(built') > Len(built) /\ built'[Len(built')].ok)) =>
         /\ ret'[c] = [kind |-> "err", client |-> 0]
         /\ clients' = clients]_vars

\* a refresh of an expired entry failed: the caller holds the error and the
\* expired entry is still in the map
C4_Witness ==
  \E c \in Callers :
    /\ pc[c] = "idle" /\ ret[c].kind = "err"
    /\ clients[arg[c]] # NoEntry
    /\ ~Live(clients[arg[c]], now)


(***************************************************************************)
(* Tool invocation: values, parameters and tool configurations.            *)
(***************************************************************************)
\* rows a result set holds at most
MaxRows == 2

\* messages the backend reports with a failure
BackendMessages == {"Parser exception", "Runtime exception"}

\* JSON values a caller supplies
InputValues == {[t |-> "string", v |-> "user"],
                [t |-> "integer", v |-> "3"],
                [t |-> "float", v |-> "2.5"]}
Nil == [t |-> "nil", v |-> "nil"]

\* the auth services of the configuration and the claims each one verifies
AuthServices == {"my-google-auth-service", "other-auth-service"}
ClaimsOf(svc) ==
  IF svc = "my-google-auth-service"
    THEN [email |-> [t |-> "string", v |-> "alice@example.com"]]
    ELSE [email |-> [t |-> "string", v |-> "bob@example.com"]]

Range(seq) == {seq[i] : i \in 1..Len(seq)}

\* tools.Parameter: name, type, required, authServices
Param(n, ty, req, auth) ==
  [name |-> n, type |-> ty, required |-> req, authServices |-> auth]
Lit(text) == [lit |-> text]
Hole(n) == [ph |-> n]
IsHole(tok) == "ph" \in DOMAIN tok

\* the names a caller's input may carry
InputNames == {"name", "year", "email", "tableName", "edgeFilter"}

\* Config values, after the tool configurations of the integration test
ToolConfigs == {
  [Name |-> "my-simple-tool", AuthRequired |-> <<>>,
   Parameters |-> <<>>, TemplateParameters |-> <<>>,
   Statement |-> <<Lit("match (a) return a.name order by a.name;")>>],
  [Name |-> "my-param-tool", AuthRequired |-> <<>>,
   Parameters |-> <<Param("year", "integer", FALSE, <<>>),
                    Param("name", "string", TRUE, <<>>)>>,
   TemplateParameters |-> <<>>,
   Statement |-> <<Lit("match (u:user {name:$name}) return u.age, u.name")>>],
  [Name |-> "my-auth-tool", AuthRequired |-> <<>>,
   Parameters |-> <<Param("email", "string", TRUE,
                          <<[name |-> "my-google-auth-service", field |-> "email"],
                            [name |-> "other-auth-service", field |-> "email"]>>)>>,
   TemplateParameters |-> <<>>,
   Statement |-> <<Lit("match (u:user {name:$email}) return u.age, u.name")>>],
  [Name |-> "my-auth-required-tool",
   AuthRequired |-> <<"my-google-auth-service", "other-auth-service">>,
   Parameters |-> <<>>, TemplateParameters |-> <<>>,
   Statement |-> <<Lit("match (a) return a;")>>],
  [Name |-> "my-auth-required-param-tool",
   AuthRequired |-> <<"my-google-auth-service">>,
   Parameters |-> <<Param("name", "string", TRUE, <<>>)>>,
   TemplateParameters |-> <<>>,
   Statement |-> <<Lit("match (u:user {name:$name}) return u.age, u.name")>>],
  [Name |-> "select-filter-templateParams-tool", AuthRequired |-> <<>>,
   Parameters |-> <<Param("year", "integer", TRUE, <<>>)>>,
   TemplateParameters |-> <<Param("tableName", "string", TRUE, <<>>),
                            Param("edgeFilter", "string", TRUE, <<>>)>>,
   Statement |-> <<Lit("match (a:"), Hole("tableName"),
                   Lit(")-[:follows { "), Hole("edgeFilter"),
                   Lit(" :$year}]->(b:user) return a.name, b.name")>>],
  [Name |-> "select-fields-templateParams-tool", AuthRequired |-> <<>>,
   Parameters |-> <<Param("name", "string", TRUE, <<>>)>>,
   TemplateParameters |-> <<Param("tableName", "string", TRUE, <<>>)>>,
   Statement |-> <<Lit("match (u:"), Hole("tableName"),
                   Lit(" {name:$name}) return u.age, u.name")>>] }

(***************************************************************************)
(* The tools package, as the specification describes it.                   *)
(***************************************************************************)
\* tools.IsAuthorized: every required service is among the verified ones
RECURSIVE IsAuthorized(_, _)
IsAuthorized(authRequired, verified) ==
  IF authRequired = <<>> THEN TRUE
  ELSE IF Head(authRequired) \notin verified THEN FALSE
  ELSE IsAuthorized(Tail(authRequired), verified)

\* whether a JSON value is accepted for a declared type; a float is not
\* truncated to an integer
Coercible(ty, val) ==
  \/ ty = "string" /\ val.t = "string"
  \/ ty = "integer" /\ val.t = "integer"
  \/ ty = "float" /\ val.t \in {"float", "integer"}

\* the claim of the first binding whose service is verified
RECURSIVE FromClaims(_, _)
FromClaims(bindings, claims) ==
  IF bindings = <<>> THEN [err |-> "AuthParameterUnresolved", value |-> Nil]
  ELSE IF Head(bindings).name \in DOMAIN claims
         THEN [err |-> "none",
               value |-> claims[Head(bindings).name][Head(bindings).field]]
  ELSE FromClaims(Tail(bindings), claims)

\* one parameter of tools.ParseParams
ParseOne(p, input, claims) ==
  IF p.authServices # <<>> THEN FromClaims(p.authServices, claims)
  ELSE IF p.name \notin DOMAIN input
         THEN IF p.required THEN [err |-> "MissingParameter", value |-> Nil]
              ELSE [err |-> "none", value |-> Nil]
  ELSE IF ~Coercible(p.type, input[p.name])
         THEN [err |-> "TypeMismatch", value |-> Nil]
  ELSE [err |-> "none", value |-> input[p.name]]

\* tools.ParseParams: the parameters in declaration order, ending at the
\* first one that fails
RECURSIVE ParseParams(_, _, _)
ParseParams(ps, input, claims) ==
  IF ps = <<>> THEN [err |-> "none", values |-> <<>>]
  ELSE LET r == ParseOne(Head(ps), input, claims) IN
       IF r.err # "none" THEN [err |-> r.err, values |-> <<>>]
       ELSE LET rest == ParseParams(Tail(ps), input, claims) IN
            IF rest.err # "none" THEN rest
            ELSE [err |-> "none",
                  values |-> <<[name |-> Head(ps).name, value |-> r.value]>>
                             \o rest.values]

\* ParamValues.AsMap
AsMap(pvs) ==
  [n \in {pvs[i].name : i \in 1..Len(pvs)} |->
     (CHOOSE pv \in {pvs[i] : i \in 1..Len(pvs)} : pv.name = n).value]

\* tools.ProcessParameters: template parameters first, then the parameters
ProcessParameters(templateParams, ps) == templateParams \o ps

\* the parameter manifest tools.ProcessParameters returns with the merged
\* list: one entry per merged parameter, in the merged order
ParamManifest(allParameters) ==
  [i \in 1..Len(allParameters) |-> allParameters[i].name]

\* tools.ResolveTemplateParams: every template parameter must be in the
\* map; each placeholder is replaced by the caller's text
ResolveTemplateParams(templateParams, statement, paramsMap) ==
  IF \E i \in 1..Len(templateParams) :
       templateParams[i].name \notin DOMAIN paramsMap
    THEN [err |-> "MissingTemplateParameter", text |-> <<>>]
    ELSE [err |-> "none",
          text |-> [i \in 1..Len(statement) |->
                      IF /\ IsHole(statement[i])
                         /\ statement[i].ph \in DOMAIN paramsMap
                        THEN Lit(paramsMap[statement[i].ph].v)
                        ELSE statement[i]]]

(***************************************************************************)
(* kuzucypher: Config.Initialize and the methods of Tool.                  *)
(***************************************************************************)
\* Config.Initialize, lines 75-95 (the source is bound in lines 65-74)
InitializeMutantNoAuthRequired(cfg) ==
  [Name |-> cfg.Name, Parameters |-> cfg.Parameters,
   TemplateParameters |-> cfg.TemplateParameters,
   AllParams |-> ProcessParameters(cfg.TemplateParameters, cfg.Parameters),
   Statement |-> cfg.Statement, AuthRequired |-> <<>>,
   manifest |-> [Parameters |->
                   ParamManifest(ProcessParameters(cfg.TemplateParameters,
                                                   cfg.Parameters)),
                 AuthRequired |-> <<>>],
   mcpManifest |-> [Name |-> cfg.Name,
                    InputSchema |->
                      ParamManifest(ProcessParameters(cfg.TemplateParameters,
                                                      cfg.Parameters))]]
InitializeMutantDropsAuthServices(cfg) ==
  LET plain(ps) == [i \in 1..Len(ps) |->
                      Param(ps[i].name, ps[i].type, ps[i].required, <<>>)] IN
  [Name |-> cfg.Name, Parameters |-> plain(cfg.Parameters),
   TemplateParameters |-> cfg.TemplateParameters,
   AllParams |-> ProcessParameters(cfg.TemplateParameters, plain(cfg.Parameters)),
   Statement |-> cfg.Statement, AuthRequired |-> cfg.AuthRequired,
   manifest |-> [Parameters |->
                   ParamManifest(ProcessParameters(cfg.TemplateParameters,
                                                   plain(cfg.Parameters))),
                 AuthRequired |-> cfg.AuthRequired],
   mcpManifest |-> [Name |-> cfg.Name,
                    InputSchema |->
                      ParamManifest(ProcessParameters(cfg.TemplateParameters,
                                                      plain(cfg.Parameters)))]]
InitializeMutantAllParamsUnmerged(cfg) ==
  [Name |-> cfg.Name, Parameters |-> cfg.Parameters,
   TemplateParameters |-> cfg.TemplateParameters,
   AllParams |-> cfg.Parameters,
   Statement |-> cfg.Statement, AuthRequired |-> cfg.AuthRequired,
   manifest |-> [Parameters |-> ParamManifest(cfg.Parameters),
                 AuthRequired |-> cfg.AuthRequired],
   mcpManifest |-> [Name |-> cfg.Name,
                    InputSchema |-> ParamManifest(cfg.Parameters)]]
Initialize(cfg) ==
  [Name |-> cfg.Name, Parameters |-> cfg.Parameters,
   TemplateParameters |-> cfg.TemplateParameters,
   AllParams |-> ProcessParameters(cfg.TemplateParameters, cfg.Parameters),
   Statement |-> cfg.Statement, AuthRequired |-> cfg.AuthRequired,
   manifest |-> [Parameters |->
                   ParamManifest(ProcessParameters(cfg.TemplateParameters,
                                                   cfg.Parameters)),
                 AuthRequired |-> cfg.AuthRequired],
   mcpManifest |-> [Name |-> cfg.Name,
                    InputSchema |->
                      ParamManifest(ProcessParameters(cfg.TemplateParameters,
                                                      cfg.Parameters))]]

\* Tool.Manifest, lines 174-176, and Tool.McpManifest, lines 179-181
Manifest(t) == t.manifest
McpManifest(t) == t.mcpManifest

Tools == {Initialize(cfg) : cfg \in ToolConfigs}

\* Tool.Authorized, lines 119-122
AuthorizedMutantSwapped(t, verified) ==
  \A s \in verified : \E i \in 1..Len(t.AuthRequired) : t.AuthRequired[i] = s
Authorized(t, verified) == IsAuthorized(t.AuthRequired, verified)

\* Tool.ParseParams, lines 183-186
ToolParseParamsMutantOwnParams(t, input, claims) ==
  ParseParams(t.Parameters, input, claims)
ToolParseParamsMutantNoClaims(t, input, claims) ==
  ParseParams(t.AllParams, input, <<>>)
ToolParseParams(t, input, claims) == ParseParams(t.AllParams, input, claims)

getParamsMutantWholeMap(ps, paramValuesMap) ==
  [err |-> "none", map |-> paramValuesMap]
\* getParams, lines 190-201
getParams(ps, paramValuesMap) ==
  IF \E i \in 1..Len(ps) : ps[i].name \notin DOMAIN paramValuesMap
    THEN [err |-> "MissingParameter", map |-> <<>>]
    ELSE [err |-> "none",
          map |-> [n \in {ps[i].name : i \in 1..Len(ps)} |-> paramValuesMap[n]]]

(***************************************************************************)
(* One invocation: the handler's steps, then the steps of Tool.Invoke.     *)
(***************************************************************************)
InvokeInit ==
  /\ stage = "Idle"
  /\ tool = Initialize(CHOOSE cfg \in ToolConfigs : cfg.Name = "my-simple-tool")
  /\ data = <<>>
  /\ claimsMap = <<>>
  /\ authz = "unset"
  /\ params = <<>>
  /\ err = "none"
  /\ stmt = <<>>
  /\ boundMap = <<>>
  /\ rowsLeft = 0
  /\ out = <<>>
  /\ calls = <<>>
  /\ errMsg = <<>>
  /\ tuples = <<>>
  /\ resultCloses = 0
  /\ cancelled = FALSE

Fail(e) == stage' = "Failed" /\ err' = e

\* the raw inputs a request can carry: any of the names, each with any value
Inputs == UNION {[names -> InputValues] : names \in SUBSET InputNames}

\* the deferred tuple.Close calls, run when Invoke returns
CloseAll(ts) == [i \in 1..Len(ts) |-> ts[i] + 1]

\* a request arrives: tool t, raw input d, the claims of the verified services.
\* A Tool keeps no state between invocations, so a behaviour follows one.
Receive ==
  /\ stage = "Idle"
  /\ \E t \in Tools, d \in Inputs, verified \in SUBSET AuthServices :
       /\ tool' = t
       /\ data' = d
       /\ claimsMap' = [svc \in verified |-> ClaimsOf(svc)]
  /\ stage' = "Received"
  /\ UNCHANGED <<authz, params, err, stmt, boundMap, rowsLeft, out, calls,
                 errMsg, tuples, resultCloses, cancelled>>
  /\ UNCHANGED <<cacheVars, buildVars>>

\* the caller cancels the context while Invoke is running with it (what a
\* cancellation before Invoke does is up to the handler)
Cancel ==
  /\ stage \in {"Parsed", "TemplateResolved", "Prepared", "ParamsBound",
                "Iterating"}
  /\ ~cancelled
  /\ cancelled' = TRUE
  /\ UNCHANGED <<stage, tool, data, claimsMap, authz, params, err, stmt,
                 boundMap, rowsLeft, out, calls, errMsg, tuples, resultCloses>>
  /\ UNCHANGED <<cacheVars, buildVars>>

\* the handler asks tool.Authorized(verifiedAuthServices) first
CheckAuthorized ==
  /\ stage = "Received"
  /\ calls' = Append(calls, "Authorized")
  /\ IF Authorized(tool, DOMAIN claimsMap)
       THEN authz' = "yes" /\ stage' = "Authorized" /\ UNCHANGED <<err, errMsg>>
       ELSE authz' = "no" /\ Fail("ToolNotAuthorized")
            /\ errMsg' = <<"tool invocation not authorized">>
  /\ UNCHANGED <<tool, data, claimsMap, params, stmt, boundMap, rowsLeft, out,
                 tuples, resultCloses, cancelled>>
  /\ UNCHANGED <<cacheVars, buildVars>>

\* then tool.ParseParams(data, claimsMap)
Parse ==
  /\ stage = "Authorized"
  /\ calls' = Append(calls, "ParseParams")
  /\ LET r == ToolParseParams(tool, data, claimsMap) IN
       IF r.err = "none"
         THEN params' = r.values /\ stage' = "Parsed" /\ UNCHANGED <<err, errMsg>>
         ELSE params' = params /\ Fail(r.err) /\ errMsg' = <<r.err>>
  /\ UNCHANGED <<tool, data, claimsMap, authz, stmt, boundMap, rowsLeft, out,
                 tuples, resultCloses, cancelled>>
  /\ UNCHANGED <<cacheVars, buildVars>>

InvokeResolveMutantKeepsTemplate ==
  /\ stage = "Parsed"
  /\ calls' = Append(calls, "ResolveTemplateParams")
  /\ LET r == ResolveTemplateParams(tool.TemplateParameters, tool.Statement,
                                    AsMap(params)) IN
       IF r.err = "none"
         THEN stmt' = tool.Statement /\ stage' = "TemplateResolved"
              /\ UNCHANGED <<err, errMsg>>
         ELSE stmt' = stmt /\ Fail(r.err)
              /\ errMsg' = <<"unable to extract template params ", r.err>>
  /\ UNCHANGED <<tool, data, claimsMap, authz, params, boundMap, rowsLeft, out,
                 tuples, resultCloses, cancelled>>
  /\ UNCHANGED <<cacheVars, buildVars>>

InvokeResolveMutantOverwritesStatement ==
  /\ stage = "Parsed"
  /\ calls' = Append(calls, "ResolveTemplateParams")
  /\ LET r == ResolveTemplateParams(tool.TemplateParameters, tool.Statement,
                                    AsMap(params)) IN
       IF r.err = "none"
         THEN stmt' = r.text /\ stage' = "TemplateResolved"
              /\ tool' = [tool EXCEPT !.Statement = r.text]
              /\ UNCHANGED <<err, errMsg>>
         ELSE stmt' = stmt /\ Fail(r.err) /\ tool' = tool
              /\ errMsg' = <<"unable to extract template params ", r.err>>
  /\ UNCHANGED <<data, claimsMap, authz, params, boundMap, rowsLeft, out,
                 tuples, resultCloses, cancelled>>
  /\ UNCHANGED <<cacheVars, buildVars>>

\* Tool.Invoke, lines 126-131
InvokeResolve ==
  /\ stage = "Parsed"
  /\ calls' = Append(calls, "ResolveTemplateParams")
  /\ LET r == ResolveTemplateParams(tool.TemplateParameters, tool.Statement,
                                    AsMap(params)) IN
       IF r.err = "none"
         THEN stmt' = r.text /\ stage' = "TemplateResolved"
              /\ UNCHANGED <<err, errMsg>>
         ELSE stmt' = stmt /\ Fail(r.err)
              /\ errMsg' = <<"unable to extract template params ", r.err>>
  /\ UNCHANGED <<tool, data, claimsMap, authz, params, boundMap, rowsLeft, out,
                 tuples, resultCloses, cancelled>>
  /\ UNCHANGED <<cacheVars, buildVars>>

\* Tool.Invoke, lines 133-136: conn.Prepare(newStatement)
InvokePrepare(outcome, m) ==
  /\ stage = "TemplateResolved"
  /\ calls' = Append(calls, "Prepare")
  /\ IF outcome = "ok"
       THEN stage' = "Prepared" /\ UNCHANGED <<err, errMsg>>
       ELSE Fail("PrepareError")
            /\ errMsg' = <<"unable to generate prepared statement ", m>>
  /\ UNCHANGED <<tool, data, claimsMap, authz, params, stmt, boundMap,
                 rowsLeft, out, tuples, resultCloses, cancelled>>
  /\ UNCHANGED <<cacheVars, buildVars>>

\* Tool.Invoke, lines 137-140: getParams(t.Parameters, paramsMap)
InvokeGetParams ==
  /\ stage = "Prepared"
  /\ calls' = Append(calls, "getParams")
  /\ LET r == getParams(tool.Parameters, AsMap(params)) IN
       IF r.err = "none"
         THEN boundMap' = r.map /\ stage' = "ParamsBound"
              /\ UNCHANGED <<err, errMsg>>
         ELSE boundMap' = boundMap /\ Fail(r.err)
              /\ errMsg' = <<"unable to extract standard params ", r.err>>
  /\ UNCHANGED <<tool, data, claimsMap, authz, params, stmt, rowsLeft, out,
                 tuples, resultCloses, cancelled>>
  /\ UNCHANGED <<cacheVars, buildVars>>

InvokeExecuteMutantGoesOn(outcome, m, n) ==
  /\ stage = "ParamsBound"
  /\ calls' = Append(calls, "Execute")
  /\ stage' = "Iterating" /\ rowsLeft' = n
  /\ IF outcome = "ok"
       THEN UNCHANGED <<err, errMsg>>
       ELSE err' = "ExecuteError" /\ errMsg' = <<"unable to execute query: ", m>>
  /\ UNCHANGED <<tool, data, claimsMap, authz, params, stmt, boundMap, out,
                 tuples, resultCloses, cancelled>>
  /\ UNCHANGED <<cacheVars, buildVars>>

\* Tool.Invoke, lines 142-148: conn.Execute(preparedStatement, newParamMap);
\* n is the number of rows the result holds
InvokeExecute(outcome, m, n) ==
  /\ stage = "ParamsBound"
  /\ calls' = Append(calls, "Execute")
  /\ IF outcome = "ok"
       THEN stage' = "Iterating" /\ rowsLeft' = n /\ UNCHANGED <<err, errMsg>>
       ELSE Fail("ExecuteError") /\ rowsLeft' = rowsLeft
            /\ errMsg' = <<"unable to execute query: ", m>>
  /\ UNCHANGED <<tool, data, claimsMap, authz, params, stmt, boundMap, out,
                 tuples, resultCloses, cancelled>>
  /\ UNCHANGED <<cacheVars, buildVars>>

\* result.GetColumnNames, line 147: the names the backend gives the columns
\* of the tool's statement, in the backend's order
GetColumnNames(t) ==
  CASE t.Name = "my-simple-tool" -> <<"a.name">>
    [] t.Name = "my-auth-required-tool" -> <<"a">>
    [] t.Name = "select-filter-templateParams-tool" -> <<"a.name", "b.name">>
    [] OTHER -> <<"u.age", "u.name">>

\* tuple.GetAsSlice, line 157: the values of the k-th row the backend
\* produced, one per column, in column order
GetAsSlice(k, cols) == [i \in 1..Len(cols) |-> <<k, i>>]

\* lines 161-166: rowMap := make(map[string]interface{}), filled column by
\* column; a later column of the same name overwrites an earlier one
RowMap(cols, slice) ==
  [c \in Range(cols) |->
     slice[CHOOSE i \in 1..Len(cols) :
             cols[i] = c /\ \A j \in i + 1..Len(cols) : cols[j] # c]]

\* a Go map keeps no order of its keys: whoever ranges over it may get them
\* in any order
KeyOrders(rowMap) ==
  {o \in [1..Cardinality(DOMAIN rowMap) -> DOMAIN rowMap] :
     \A i, j \in DOMAIN o : i # j => o[i] # o[j]}

InvokeRowMutantKeepsPartial(outcome, m) ==
  /\ stage = "Iterating"
  /\ rowsLeft > 0
  /\ calls' = Append(calls, "Next")
  /\ CASE outcome = "ok" ->
            /\ tuples' = Append(tuples, 0)
            /\ out' = Append(out, RowMap(GetColumnNames(tool),
                                         GetAsSlice(Len(out) + 1,
                                                    GetColumnNames(tool))))
            /\ rowsLeft' = rowsLeft - 1
            /\ UNCHANGED <<stage, err, errMsg, resultCloses>>
       [] outcome = "nextErr" ->
            /\ Fail("RowError")
            /\ errMsg' = <<"unable to parse row: ", m>>
            /\ out' = out
            /\ tuples' = CloseAll(tuples)
            /\ resultCloses' = resultCloses + 1
            /\ rowsLeft' = rowsLeft
       [] outcome = "sliceErr" ->
            /\ Fail("SliceError")
            /\ errMsg' = <<"unable to slice row: ", m>>
            /\ out' = out
            /\ tuples' = CloseAll(Append(tuples, 0))
            /\ resultCloses' = resultCloses + 1
            /\ rowsLeft' = rowsLeft
  /\ UNCHANGED <<tool, data, claimsMap, authz, params, stmt, boundMap, cancelled>>
  /\ UNCHANGED <<cacheVars, buildVars>>

InvokeRowMutantLateDefer(outcome, m) ==
  /\ stage = "Iterating"
  /\ rowsLeft > 0
  /\ calls' = Append(calls, "Next")
  /\ CASE outcome = "ok" ->
            /\ tuples' = Append(tuples, 0)
            /\ out' = Append(out, RowMap(GetColumnNames(tool),
                                         GetAsSlice(Len(out) + 1,
                                                    GetColumnNames(tool))))
            /\ rowsLeft' = rowsLeft - 1
            /\ UNCHANGED <<stage, err, errMsg, resultCloses>>
       [] outcome = "nextErr" ->
            /\ Fail("RowError")
            /\ errMsg' = <<"unable to parse row: ", m>>
            /\ out' = <<>>
            /\ tuples' = CloseAll(tuples)
            /\ resultCloses' = resultCloses + 1
            /\ rowsLeft' = rowsLeft
       [] outcome = "sliceErr" ->
            /\ Fail("SliceError")
            /\ errMsg' = <<"unable to slice row: ", m>>
            /\ out' = <<>>
            /\ tuples' = Append(CloseAll(tuples), 0)
            /\ resultCloses' = resultCloses + 1
            /\ rowsLeft' = rowsLeft
  /\ UNCHANGED <<tool, data, claimsMap, authz, params, stmt, boundMap, cancelled>>
  /\ UNCHANGED <<cacheVars, buildVars>>

\* Tool.Invoke, lines 149-168: one turn of the row loop.  result.Next may
\* fail, and so may tuple.GetAsSlice, after tuple.Close was deferred; a
\* return runs the deferred closes of the tuples and of the result.
InvokeRow(outcome, m) ==
  /\ stage = "Iterating"
  /\ rowsLeft > 0
  /\ calls' = Append(calls, "Next")
  /\ CASE outcome = "ok" ->
            /\ tuples' = Append(tuples, 0)
            /\ out' = Append(out, RowMap(GetColumnNames(tool),
                                         GetAsSlice(Len(out) + 1,
                                                    GetColumnNames(tool))))
            /\ rowsLeft' = rowsLeft - 1
            /\ UNCHANGED <<stage, err, errMsg, resultCloses>>
       [] outcome = "nextErr" ->
            /\ Fail("RowError")
            /\ errMsg' = <<"unable to parse row: ", m>>
            /\ out' = <<>>
            /\ tuples' = CloseAll(tuples)
            /\ resultCloses' = resultCloses + 1
            /\ rowsLeft' = rowsLeft
       [] outcome = "sliceErr" ->
            /\ Fail("SliceError")
            /\ errMsg' = <<"unable to slice row: ", m>>
            /\ out' = <<>>
            /\ tuples' = CloseAll(Append(tuples, 0))
            /\ resultCloses' = resultCloses + 1
            /\ rowsLeft' = rowsLeft
  /\ UNCHANGED <<tool, data, claimsMap, authz, params, stmt, boundMap, cancelled>>
  /\ UNCHANGED <<cacheVars, buildVars>>

InvokeReturnMutantEmptyIsError ==
  /\ stage = "Iterating"
  /\ rowsLeft = 0
  /\ IF out = <<>>
       THEN Fail("NoRows") /\ errMsg' = <<"no rows">>
       ELSE stage' = "Completed" /\ UNCHANGED <<err, errMsg>>
  /\ tuples' = CloseAll(tuples)
  /\ resultCloses' = resultCloses + 1
  /\ UNCHANGED <<tool, data, claimsMap, authz, params, stmt, boundMap,
                 rowsLeft, out, calls, cancelled>>
  /\ UNCHANGED <<cacheVars, buildVars>>

\* Tool.Invoke, lines 149 and 170: HasNext is false, return out; the
\* deferred closes run
InvokeReturn ==
  /\ stage = "Iterating"
  /\ rowsLeft = 0
  /\ stage' = "Completed"
  /\ tuples' = CloseAll(tuples)
  /\ resultCloses' = resultCloses + 1
  /\ UNCHANGED <<tool, data, claimsMap, authz, params, err, stmt, boundMap,
                 rowsLeft, out, calls, errMsg, cancelled>>
  /\ UNCHANGED <<cacheVars, buildVars>>

InvokeNext ==
  \/ Receive
  \/ Cancel
  \/ CheckAuthorized
  \/ Parse
  \/ InvokeResolve
  \/ \E o \in {"ok", "err"}, m \in BackendMessages : InvokePrepare(o, m)
  \/ InvokeGetParams
  \/ \E o \in {"ok", "err"}, m \in BackendMessages, n \in 0..MaxRows :
       InvokeExecute(o, m, n)
  \/ \E o \in {"ok", "nextErr", "sliceErr"}, m \in BackendMessages :
       InvokeRow(o, m)
  \/ InvokeReturn

(***************************************************************************)
(* Tool construction: Config.Initialize against the sources built so far.  *)
(***************************************************************************)
\* the names sources are configured under
SourceNames == {"my-instance", "my-other-instance"}

\* a built Source: its kind string and the methods its type has
SourceKinds == {"kuzu", "kuzudb", "bigquery"}
Sources == [kind : SourceKinds, methods : {{"KuzuDB"}, {"BigQueryClient"}}]

\* var kind, line 28
toolKind == "kuzu-cypher"
\* var compatibleSources, line 61
compatibleSources == <<"kuzu">>

NoTool == [Name |-> ""]
NoManifest == [Parameters |-> <<>>, AuthRequired |-> <<"-">>]
\* a nil connection handle; the handles opened are numbered from 1
NoConnection == 0
NoBuild == [cfg |-> "", source |-> "", tool |-> NoTool,
            Connection |-> NoConnection,
            manifest |-> NoManifest, err |-> "none", msg |-> <<>>]

\* how many tools the model builds
MaxTools == 2

\* the configurations handed to Config.Initialize: those of the test, and
\* one whose template parameter and parameter bear the same name
BuildConfigs ==
  ToolConfigs \cup
  {[Name |-> "same-name-tool", AuthRequired |-> <<>>,
    Parameters |-> <<Param("name", "string", TRUE, <<>>)>>,
    TemplateParameters |-> <<Param("name", "string", TRUE, <<>>)>>,
    Statement |-> <<Lit("match (u:"), Hole("name"),
                    Lit(" {name:$name}) return u.age, u.name")>>]}

\* KuzuDbConfig.Initialize, kuzudb.go lines 44-56: the source opens one
\* connection and keeps it in its Connection field
SourceInitialize(s, handle) ==
  [kind |-> s.kind, methods |-> s.methods, Connection |-> handle]

\* KuzuDbSource.KuzuDB, kuzudb.go lines 71-73
KuzuDB(s) == s.Connection

\* the type assertion rawS.(compatibleSource), lines 55-57 and 71
compatibleSourceMutantByKind(s) == s.kind \in Range(compatibleSources)
compatibleSource(s) == "KuzuDB" \in s.methods

\* Config.Initialize with its sources, lines 64-96
ConfigInitializeMutantNoLookupCheck(cfg, source, sourcesMap) ==
  IF source \notin DOMAIN sourcesMap \/ ~compatibleSource(sourcesMap[source])
    THEN [cfg |-> cfg.Name, source |-> source, tool |-> NoTool,
          Connection |-> NoConnection, manifest |-> NoManifest, err |-> "IncompatibleSource",
          msg |-> <<"invalid source for ", toolKind,
                    " tool: source kind must be one of ">> \o compatibleSources]
  ELSE [cfg |-> cfg.Name, source |-> source, tool |-> Initialize(cfg),
        Connection |-> KuzuDB(sourcesMap[source]),
        manifest |-> [Parameters |->
                        [i \in 1..Len(Initialize(cfg).AllParams) |->
                           Initialize(cfg).AllParams[i].name],
                      AuthRequired |-> cfg.AuthRequired],
        err |-> "none", msg |-> <<>>]
ConfigInitializeMutantOpensConnection(cfg, source, sourcesMap) ==
  IF source \notin DOMAIN sourcesMap
    THEN [cfg |-> cfg.Name, source |-> source, tool |-> NoTool,
          Connection |-> NoConnection, manifest |-> NoManifest, err |-> "UnknownSource",
          msg |-> <<"no source named ", source, " configured">>]
  ELSE IF ~compatibleSource(sourcesMap[source])
    THEN [cfg |-> cfg.Name, source |-> source, tool |-> NoTool,
          Connection |-> NoConnection, manifest |-> NoManifest, err |-> "IncompatibleSource",
          msg |-> <<"invalid source for ", toolKind,
                    " tool: source kind must be one of ">> \o compatibleSources]
  ELSE [cfg |-> cfg.Name, source |-> source, tool |-> Initialize(cfg),
        Connection |-> Cardinality(DOMAIN sourcesMap) + 1,
        manifest |-> [Parameters |->
                        [i \in 1..Len(Initialize(cfg).AllParams) |->
                           Initialize(cfg).AllParams[i].name],
                      AuthRequired |-> cfg.AuthRequired],
        err |-> "none", msg |-> <<>>]
ConfigInitialize(cfg, source, sourcesMap) ==
  IF source \notin DOMAIN sourcesMap
    THEN [cfg |-> cfg.Name, source |-> source, tool |-> NoTool,
          Connection |-> NoConnection, manifest |-> NoManifest, err |-> "UnknownSource",
          msg |-> <<"no source named ", source, " configured">>]
  ELSE IF ~compatibleSource(sourcesMap[source])
    THEN [cfg |-> cfg.Name, source |-> source, tool |-> NoTool,
          Connection |-> NoConnection, manifest |-> NoManifest, err |-> "IncompatibleSource",
          msg |-> <<"invalid source for ", toolKind,
                    " tool: source kind must be one of ">> \o compatibleSources]
  ELSE [cfg |-> cfg.Name, source |-> source, tool |-> Initialize(cfg),
        Connection |-> KuzuDB(sourcesMap[source]),
        manifest |-> [Parameters |->
                        [i \in 1..Len(Initialize(cfg).AllParams) |->
                           Initialize(cfg).AllParams[i].name],
                      AuthRequired |-> cfg.AuthRequired],
        err |-> "none", msg |-> <<>>]

BuildInit ==
  /\ srcs = <<>>
  /\ build = NoBuild
  /\ opened = 0
  /\ toolsBuilt = <<>>
  /\ connUsed = NoConnection

\* a source is built and entered under its name, before any tool is built;
\* building it opens its connection
AddSource(n, s) ==
  /\ build = NoBuild
  /\ n \notin DOMAIN srcs
  /\ opened' = opened + 1
  /\ srcs' = [x \in DOMAIN srcs \cup {n} |->
               IF x = n THEN SourceInitialize(s, opened + 1) ELSE srcs[x]]
  /\ UNCHANGED <<build, toolsBuilt, connUsed>>
  /\ UNCHANGED <<cacheVars, invokeVars, regVars, opening, resolved,
                 otherVars>>

\* a tool configuration naming source n is initialized; a tool that was
\* built is kept under its name, and a name is built once
BuildTool(cfg, n) ==
  LET r == ConfigInitialize(cfg, n, srcs) IN
    /\ r.err = "none" =>
         /\ Cardinality(DOMAIN toolsBuilt) < MaxTools
         /\ cfg.Name \notin DOMAIN toolsBuilt
    /\ build' = r
    /\ toolsBuilt' = IF r.err = "none"
                       THEN [x \in DOMAIN toolsBuilt \cup {cfg.Name} |->
                               IF x = cfg.Name THEN r ELSE toolsBuilt[x]]
                       ELSE toolsBuilt
    /\ UNCHANGED <<srcs, opened, connUsed>>
    /\ UNCHANGED <<cacheVars, invokeVars, regVars, opening, resolved,
                 otherVars>>

\* Tool.Invoke, line 126: the invocation of a built tool takes the tool's
\* connection
InvokeConnection(name) ==
  /\ name \in DOMAIN toolsBuilt
  /\ connUsed' = toolsBuilt[name].Connection
  /\ UNCHANGED <<srcs, build, opened, toolsBuilt>>
  /\ UNCHANGED <<cacheVars, invokeVars, regVars, opening, resolved,
                 otherVars>>

BuildNext ==
  \/ \E n \in SourceNames, s \in Sources : AddSource(n, s)
  \/ \E cfg \in BuildConfigs, n \in SourceNames : BuildTool(cfg, n)
  \/ \E cfg \in BuildConfigs : InvokeConnection(cfg.Name)

(***************************************************************************)
(* Registration: each package's init() enters its factory under its kind.  *)
(***************************************************************************)
\* the two registries, and the kinds the packages register in each
RegistryNames == {"sources", "tools"}
KindsOf(reg) == IF reg = "sources" THEN SourceKinds ELSE {toolKind}

\* the newConfig function of each package
Factories == {"kuzudb.newConfig", "kuzu.newConfig", "bigquery.newConfig",
              "kuzucypher.newConfig"}

NoCall == [reg |-> "", kind |-> "", factory |-> "", ok |-> TRUE]

\* sources.Register and tools.Register: false, and nothing entered, when the
\* kind is already registered
RegisterMutantOverwrites(registry, k, factory) ==
  [ok |-> k \notin DOMAIN registry,
   registry |-> [x \in DOMAIN registry \cup {k} |->
                   IF x = k THEN factory ELSE registry[x]]]
Register(registry, k, factory) ==
  IF k \in DOMAIN registry
    THEN [ok |-> FALSE, registry |-> registry]
    ELSE [ok |-> TRUE,
          registry |-> [x \in DOMAIN registry \cup {k} |->
                          IF x = k THEN factory ELSE registry[x]]]

RegInit ==
  /\ registries = [reg \in RegistryNames |-> <<>>]
  /\ regCall = NoCall
  /\ panicked = FALSE

\* func init(): if !Register(kind, newConfig) { panic(...) }
PackageInitMutantIgnoresResult(reg, k, factory) ==
  /\ ~panicked
  /\ LET r == Register(registries[reg], k, factory) IN
       /\ registries' = [registries EXCEPT ![reg] = r.registry]
       /\ regCall' = [reg |-> reg, kind |-> k, factory |-> factory, ok |-> r.ok]
       /\ panicked' = FALSE
  /\ UNCHANGED <<cacheVars, invokeVars, toolVars, opening, resolved,
                 otherVars>>
PackageInit(reg, k, factory) ==
  /\ ~panicked
  /\ LET r == Register(registries[reg], k, factory) IN
       /\ registries' = [registries EXCEPT ![reg] = r.registry]
       /\ regCall' = [reg |-> reg, kind |-> k, factory |-> factory, ok |-> r.ok]
       /\ panicked' = ~r.ok
  /\ UNCHANGED <<cacheVars, invokeVars, toolVars, opening, resolved,
                 otherVars>>

RegistryNext ==
  \E reg \in RegistryNames, factory \in Factories :
    \E k \in KindsOf(reg) : PackageInit(reg, k, factory)

(***************************************************************************)
(* Opening a Kuzu database: initKuzuDbConnection and initKuzuConnection.   *)
(***************************************************************************)
\* KuzuDbConfig and Config: the system fields of a source configuration;
\* a field left out of the YAML has Go's zero value.  The sizes are those of
\* the documented example, maxDbSize in KiB to stay within 32 bits
KuzuConfigs ==
  [Database : {"", ":memory:"},
   BufferPoolSize : {0, 1073741824},
   MaxNumThreads : {0, 4},
   EnableCompression : BOOLEAN,
   ReadOnly : BOOLEAN,
   MaxDbSize : {0, 5242880}]

\* kuzu.DefaultSystemConfig(): compression on and read-only off, as the
\* documentation of the source gives the defaults; the sizes and the thread
\* count are the library's own
DefaultSystemConfig ==
  [BufferPoolSize |-> "default", MaxNumThreads |-> "default",
   EnableCompression |-> TRUE, ReadOnly |-> FALSE, MaxDbSize |-> "default"]

\* lines 81-96 of kuzudb.go, 95-110 of the kuzu source: each configured
\* field is copied under its if
SystemConfigOf(config) ==
  [BufferPoolSize |-> IF config.BufferPoolSize # 0
                        THEN config.BufferPoolSize
                        ELSE DefaultSystemConfig.BufferPoolSize,
   EnableCompression |-> IF config.EnableCompression
                           THEN config.EnableCompression
                           ELSE DefaultSystemConfig.EnableCompression,
   MaxDbSize |-> IF config.MaxDbSize # 0
                   THEN config.MaxDbSize
                   ELSE DefaultSystemConfig.MaxDbSize,
   ReadOnly |-> IF config.ReadOnly
                  THEN config.ReadOnly
                  ELSE DefaultSystemConfig.ReadOnly,
   MaxNumThreads |-> IF config.MaxNumThreads # 0
                       THEN config.MaxNumThreads
                       ELSE DefaultSystemConfig.MaxNumThreads]

\* what opening the database and the connection may come to
OpenOutcomes == {"ok", "dbErr", "connErr"}
OpenResult(outcome) ==
  CASE outcome = "ok" -> <<>>
    [] outcome = "dbErr" -> <<"unable to connect to database: ">>
    [] outcome = "connErr" -> <<"unable to open a database connection: ">>

NoOpening ==
  [kind |-> "", config |-> CHOOSE c \in KuzuConfigs : TRUE,
   systemConfig |-> DefaultSystemConfig, call |-> "", err |-> <<>>,
   conn |-> FALSE]

OpenInit == opening = NoOpening

\* initKuzuDbConnection, kuzudb.go lines 77-113
initKuzuDbConnection(config, outcome) ==
  /\ opening' = [kind |-> "kuzudb", config |-> config,
                 systemConfig |-> SystemConfigOf(config),
                 call |-> IF config.Database # "" THEN "OpenDatabase"
                                                ELSE "OpenInMemoryDatabase",
                 err |-> OpenResult(outcome), conn |-> outcome = "ok"]
  /\ UNCHANGED <<cacheVars, invokeVars, toolVars, regVars, resolved,
                 otherVars>>

\* initKuzuConnection of the kuzu source, lines 91-122
initKuzuConnection(config, outcome) ==
  /\ opening' = [kind |-> "kuzu", config |-> config,
                 systemConfig |-> SystemConfigOf(config),
                 call |-> "OpenDatabase",
                 err |-> OpenResult(outcome), conn |-> outcome = "ok"]
  /\ UNCHANGED <<cacheVars, invokeVars, toolVars, regVars, resolved,
                 otherVars>>

SourceNext ==
  \E config \in KuzuConfigs, outcome \in OpenOutcomes :
    \/ initKuzuDbConnection(config, outcome)
    \/ initKuzuConnection(config, outcome)

(***************************************************************************)
(* Template resolution on its own: Tool.Invoke, lines 126-133, applied to  *)
(* any tool and any map of caller strings.                                 *)
(***************************************************************************)
\* the strings a caller may give for a template parameter: identifiers, one
\* that reads like a placeholder, and one that carries Cypher of its own
TemplateStrings == {"user", "since", "{{.edgeFilter}}",
                    "user) detach delete (u"}
TemplateNames == {"tableName", "edgeFilter"}
ParamsMaps ==
  UNION {[S -> {[t |-> "string", v |-> str] : str \in TemplateStrings}] :
           S \in SUBSET TemplateNames}

\* how a placeholder is written in a statement
PlaceholderText(n) ==
  CASE n = "tableName" -> "{{.tableName}}"
    [] n = "edgeFilter" -> "{{.edgeFilter}}"
    [] OTHER -> "{{.name}}"

\* what scanning a piece of text for a placeholder finds
Scan(text) ==
  IF \E n \in InputNames : PlaceholderText(n) = text
    THEN Hole(CHOOSE n \in InputNames : PlaceholderText(n) = text)
    ELSE Lit(text)

NoResolution ==
  [called |-> FALSE, tool |-> "", statement |-> <<>>, paramsMap |-> <<>>,
   err |-> "none", prepared |-> <<>>]

ResolveInit == resolved = NoResolution

\* Tool.Invoke, lines 126-133: the statement is resolved once and the
\* result is what conn.Prepare is given
ResolveStatementMutantTwice(t, m) ==
  LET r == ResolveTemplateParams(t.TemplateParameters, t.Statement, m)
      again == ResolveTemplateParams(
                 t.TemplateParameters,
                 [i \in 1..Len(r.text) |->
                    IF IsHole(r.text[i]) THEN r.text[i]
                                         ELSE Scan(r.text[i].lit)],
                 m) IN
    /\ resolved' = [called |-> TRUE, tool |-> t.Name,
                    statement |-> t.Statement, paramsMap |-> m,
                    err |-> r.err, prepared |-> again.text]
    /\ UNCHANGED <<cacheVars, invokeVars, toolVars, regVars, opening,
                 otherVars>>
ResolveStatement(t, m) ==
  LET r == ResolveTemplateParams(t.TemplateParameters, t.Statement, m) IN
    /\ resolved' = [called |-> TRUE, tool |-> t.Name,
                    statement |-> t.Statement, paramsMap |-> m,
                    err |-> r.err, prepared |-> r.text]
    /\ UNCHANGED <<cacheVars, invokeVars, toolVars, regVars, opening,
                 otherVars>>

ResolveNext == \E t \in Tools, m \in ParamsMaps : ResolveStatement(t, m)

(***************************************************************************)
(* Sources sharing the client cache, and invocations using their client.   *)
(***************************************************************************)
\* one source only: every caller's client creator was made by
\* newBigQueryClientCreator, lines 188-200, with the same project
UseInit ==
  /\ project = [c \in Callers |-> "project-a/US"]
  /\ using = [c \in Callers |-> FALSE]

\* two sources with different projects, each caller acting for one of them;
\* GetClientCache, lines 216-225, hands both the one cache
SharedInit ==
  /\ project = [c \in Callers |->
                  IF c = "g1" THEN "project-a/US" ELSE "project-b/EU"]
  /\ using = [c \in Callers |-> FALSE]

\* the invocation that got a client from GetOrCreateClient runs its query
\* with it
Use(c) ==
  /\ pc[c] = "idle"
  /\ ret[c].kind = "client"
  /\ ~using[c]
  /\ using' = [using EXCEPT ![c] = TRUE]
  /\ UNCHANGED project
  /\ UNCHANGED <<cacheVars, invokeVars, toolVars, regVars, opening, resolved,
                 engineVars>>

\* the invocation is through with the client
Finish(c) ==
  /\ using[c]
  /\ using' = [using EXCEPT ![c] = FALSE]
  /\ UNCHANGED project
  /\ UNCHANGED <<cacheVars, invokeVars, toolVars, regVars, opening, resolved,
                 engineVars>>

SharedNext ==
  \/ CacheNext
  \/ \E c \in Callers : Use(c)
  \/ \E c \in Callers : Finish(c)

(***************************************************************************)
(* The chat agent: one session, its Run goroutine and its stream handler.  *)
(***************************************************************************)
\* New, line 78
maxToolRuns == 5

\* make(chan agent.ChatEvent, 32), startChatHandler line 78
Capacity == 32

\* how many tool calls one answer of the model holds at most
MaxToolCalls == 2

\* the keys of toolsMap, New lines 54-67: a tool's name and its snake alias
toolsMap == {"search-hotels", "search_hotels"}

\* the names a tool call can carry: one that is in toolsMap, one that is not
CallNames == {"search_hotels", "book_hotel"}

\* the argument texts a tool call can carry: a JSON object, and a text
\* json.Unmarshal rejects
CallArguments == {"{}", "{"}

\* json.Unmarshal into a map, line 137
Unmarshals(a) == a = "{}"

\* the tool calls an answer can carry.  The arguments of a call with an
\* unknown name are never looked at (123-133), so one text stands for them.
ToolCallsOf ==
  {tc \in [Name : CallNames, Arguments : CallArguments] :
     tc.Name \notin toolsMap => tc.Arguments = "{}"}

RECURSIVE SeqsUpTo(_, _)
SeqsUpTo(S, n) ==
  IF n = 0 THEN {<<>>}
  ELSE LET shorter == SeqsUpTo(S, n - 1)
       IN  shorter \cup {Append(q, x) : q \in shorter, x \in S}

\* what GenerateContent can return, line 96: an error, or a first choice
\* with its tool calls (none for a plain text answer)
ModelAnswers ==
  {[err |-> TRUE, ToolCalls |-> <<>>]}
    \cup {[err |-> FALSE, ToolCalls |-> q] : q \in SeqsUpTo(ToolCallsOf, MaxToolCalls)}

\* what tool.Invoke can return, line 148
ToolOutcomes == {"result", "err"}

\* the request bodies of POST /chat: without and with a message
Messages == {"", "find a hotel"}

EngineInit ==
  /\ chat = "none"
  /\ chanCap = 0
  /\ events = <<>>
  /\ closes = 0
  /\ runPc = "none"
  /\ toolRuns = 0
  /\ modelCalls = 0
  /\ toolCalls = <<>>
  /\ pending = <<>>
  /\ sent = <<>>
  /\ reader = "none"
  /\ received = <<>>

\* startChatHandler, lines 63-88, with a channel of capacity 16
StartChatMutantSmallChannel(msg, engineErr) ==
  /\ chat = "none"
  /\ IF msg = ""
       THEN /\ chat' = "400"
            /\ UNCHANGED <<chanCap, runPc>>
       ELSE IF engineErr
         THEN /\ chat' = "500"
              /\ UNCHANGED <<chanCap, runPc>>
         ELSE /\ chat' = "200"
              /\ chanCap' = 16
              /\ runPc' = "seed"
  /\ UNCHANGED <<events, closes, toolRuns, modelCalls, toolCalls, pending,
                 sent, reader, received>>
  /\ UNCHANGED <<cacheVars, invokeVars, toolVars, regVars, opening, resolved,
                 useVars>>

\* startChatHandler, lines 63-88: a body without a message is refused (65-68),
\* so is a request when the engine could not be built (70-74); otherwise the
\* session gets its channel (78) and Run is started as a goroutine (85)
StartChat(msg, engineErr) ==
  /\ chat = "none"
  /\ IF msg = ""
       THEN /\ chat' = "400"
            /\ UNCHANGED <<chanCap, runPc>>
       ELSE IF engineErr
         THEN /\ chat' = "500"
              /\ UNCHANGED <<chanCap, runPc>>
         ELSE /\ chat' = "200"
              /\ chanCap' = Capacity
              /\ runPc' = "seed"
  /\ UNCHANGED <<events, closes, toolRuns, modelCalls, toolCalls, pending,
                 sent, reader, received>>
  /\ UNCHANGED <<cacheVars, invokeVars, toolVars, regVars, opening, resolved,
                 useVars>>

\* Run, lines 85-92: the history is seeded, the user event is the first to go
\* out, toolRuns starts at 0
RunSeed ==
  /\ runPc = "seed"
  /\ pending' = <<"user">>
  /\ toolRuns' = 0
  /\ runPc' = "ask"
  /\ UNCHANGED <<chat, chanCap, events, closes, modelCalls, toolCalls, sent,
                 reader, received>>
  /\ UNCHANGED <<cacheVars, invokeVars, toolVars, regVars, opening, resolved,
                 useVars>>

\* a send on the channel, sink <- ChatEvent{...}: it goes through while the
\* buffer has room and waits otherwise
Send ==
  /\ pending # <<>>
  /\ Len(events) < chanCap
  /\ events' = Append(events, Head(pending))
  /\ sent' = Append(sent, Head(pending))
  /\ pending' = Tail(pending)
  /\ UNCHANGED <<chat, chanCap, closes, runPc, toolRuns, modelCalls,
                 toolCalls, reader, received>>
  /\ UNCHANGED <<cacheVars, invokeVars, toolVars, regVars, opening, resolved,
                 useVars>>

\* Run, lines 96-110, where the error path does not close the sink
GenerateContentMutantNoClose(answer) ==
  /\ runPc = "ask"
  /\ pending = <<>>
  /\ modelCalls' = modelCalls + 1
  /\ IF answer.err
       THEN /\ pending' = <<"agent_error">>
            /\ runPc' = "exited"
            /\ UNCHANGED toolCalls
       ELSE IF Len(answer.ToolCalls) = 0
         THEN /\ pending' = <<"assistant", "done">>
              /\ runPc' = "return"
              /\ UNCHANGED toolCalls
         ELSE /\ pending' = <<"assistant">>
              /\ runPc' = "tools"
              /\ toolCalls' = answer.ToolCalls
  /\ UNCHANGED <<chat, chanCap, events, closes, toolRuns, sent, reader,
                 received>>
  /\ UNCHANGED <<cacheVars, invokeVars, toolVars, regVars, opening, resolved,
                 useVars>>

\* Run, lines 96-110: the model is asked.  An error goes out as agent_error
\* and Run returns (97-100); otherwise the assistant event goes out (104)
\* and, with no tool calls, the done event, and Run returns (107-110)
GenerateContent(answer) ==
  /\ runPc = "ask"
  /\ pending = <<>>
  /\ modelCalls' = modelCalls + 1
  /\ IF answer.err
       THEN /\ pending' = <<"agent_error">>
            /\ runPc' = "return"
            /\ UNCHANGED toolCalls
       ELSE IF Len(answer.ToolCalls) = 0
         THEN /\ pending' = <<"assistant", "done">>
              /\ runPc' = "return"
              /\ UNCHANGED toolCalls
         ELSE /\ pending' = <<"assistant">>
              /\ runPc' = "tools"
              /\ toolCalls' = answer.ToolCalls
  /\ UNCHANGED <<chat, chanCap, events, closes, toolRuns, sent, reader,
                 received>>
  /\ UNCHANGED <<cacheVars, invokeVars, toolVars, regVars, opening, resolved,
                 useVars>>

\* the limit test with > for >=
LimitReachedMutantOffByOne(runs) == runs > maxToolRuns

\* line 115
LimitReached(runs) == runs >= maxToolRuns

\* Run, lines 114-182: one pass of the loop over the answer's tool calls.
\* At the limit: agent_error, done, return (115-120).  Otherwise the attempt
\* is counted (121); an unknown name gives agent_error and leaves the loop
\* for the next question to the model (123-133, 175-177); arguments that do
\* not parse give agent_error, done, return (137-142); then tool_call goes
\* out (145) and the tool runs (148): its error gives agent_error, done,
\* return (149-154), its result tool_resp (160).  After the last call the
\* model is asked again (180-182).
HandleToolCall(outcome) ==
  /\ runPc = "tools"
  /\ pending = <<>>
  /\ LET tc == Head(toolCalls)
     IN  IF LimitReached(toolRuns)
           THEN /\ pending' = <<"agent_error", "done">>
                /\ runPc' = "return"
                /\ UNCHANGED <<toolRuns, toolCalls>>
           ELSE /\ toolRuns' = toolRuns + 1
                /\ IF tc.Name \notin toolsMap
                     THEN /\ pending' = <<"agent_error">>
                          /\ runPc' = "ask"
                          /\ toolCalls' = <<>>
                     ELSE IF ~Unmarshals(tc.Arguments)
                       THEN /\ pending' = <<"agent_error", "done">>
                            /\ runPc' = "return"
                            /\ UNCHANGED toolCalls
                       ELSE IF outcome = "err"
                         THEN /\ pending' = <<"tool_call", "agent_error", "done">>
                              /\ runPc' = "return"
                              /\ UNCHANGED toolCalls
                         ELSE /\ pending' = <<"tool_call", "tool_resp">>
                              /\ toolCalls' = Tail(toolCalls)
                              /\ runPc' = IF Tail(toolCalls) = <<>>
                                            THEN "ask" ELSE "tools"
  /\ UNCHANGED <<chat, chanCap, events, closes, modelCalls, sent, reader,
                 received>>
  /\ UNCHANGED <<cacheVars, invokeVars, toolVars, regVars, opening, resolved,
                 useVars>>

\* Run returns and the deferred close(sink) of line 83 runs
RunReturn ==
  /\ runPc = "return"
  /\ pending = <<>>
  /\ closes' = closes + 1
  /\ runPc' = "exited"
  /\ UNCHANGED <<chat, chanCap, events, toolRuns, modelCalls, toolCalls,
                 pending, sent, reader, received>>
  /\ UNCHANGED <<cacheVars, invokeVars, toolVars, regVars, opening, resolved,
                 useVars>>

\* streamChatHandler, lines 90-111: the session is found and the stream begins
StreamOpen ==
  /\ chat = "200"
  /\ reader = "none"
  /\ reader' = "streaming"
  /\ UNCHANGED <<chat, chanCap, events, closes, runPc, toolRuns, modelCalls,
                 toolCalls, pending, sent, received>>
  /\ UNCHANGED <<cacheVars, invokeVars, toolVars, regVars, opening, resolved,
                 useVars>>

\* lines 116-122: an event is received from the channel and written out
StreamReceive ==
  /\ reader = "streaming"
  /\ events # <<>>
  /\ received' = Append(received, Head(events))
  /\ events' = Tail(events)
  /\ UNCHANGED <<chat, chanCap, closes, runPc, toolRuns, modelCalls,
                 toolCalls, pending, sent, reader>>
  /\ UNCHANGED <<cacheVars, invokeVars, toolVars, regVars, opening, resolved,
                 useVars>>

\* lines 116-119: the receive on a closed and empty channel reports open as
\* false and the handler returns
StreamFinished ==
  /\ reader = "streaming"
  /\ events = <<>>
  /\ closes > 0
  /\ reader' = "finished"
  /\ UNCHANGED <<chat, chanCap, events, closes, runPc, toolRuns, modelCalls,
                 toolCalls, pending, sent, received>>
  /\ UNCHANGED <<cacheVars, invokeVars, toolVars, regVars, opening, resolved,
                 useVars>>

\* lines 114-115: the request's context is done (the client went away) and
\* the handler returns
StreamCancelled ==
  /\ reader = "streaming"
  /\ reader' = "cancelled"
  /\ UNCHANGED <<chat, chanCap, events, closes, runPc, toolRuns, modelCalls,
                 toolCalls, pending, sent, received>>
  /\ UNCHANGED <<cacheVars, invokeVars, toolVars, regVars, opening, resolved,
                 useVars>>

RunNext ==
  \/ RunSeed
  \/ Send
  \/ \E answer \in ModelAnswers : GenerateContent(answer)
  \/ \E outcome \in ToolOutcomes : HandleToolCall(outcome)
  \/ RunReturn

EngineNext ==
  \/ \E msg \in Messages, engineErr \in BOOLEAN : StartChat(msg, engineErr)
  \/ RunNext
  \/ StreamOpen
  \/ StreamReceive
  \/ StreamFinished
  \/ StreamCancelled

(***************************************************************************)
(* Specifications.                                                         *)
(***************************************************************************)

Init ==
  /\ CacheInit /\ InvokeInit /\ BuildInit /\ RegInit /\ OpenInit /\ ResolveInit
  /\ UseInit /\ EngineInit

SpecRegistry == Init /\ [][RegistryNext]_vars

SpecSource == Init /\ [][SourceNext]_vars

SpecResolve == Init /\ [][ResolveNext]_vars

\* how many ticker periods the fair specification follows
LivePeriods == 2

\* the cache with its scheduling.  A goroutine that can go on does (weak
\* fairness of the steps inside a lock section); a goroutine waiting in
\* Lock gets the lock in the end, since sync.RWMutex keeps new readers out
\* while a writer waits and hands the lock to waiting writers in turn
\* (strong fairness of the two Lock steps).
LiveNext == CacheNext /\ now' <= LivePeriods * SweepIntervalMinutes

Fairness ==
  /\ \A c \in Callers :
       /\ WF_vars(FastPath(c))
       /\ SF_vars(Lock(c))
       /\ WF_vars(SlowPath(c))
       /\ WF_vars(\E o \in CreateOutcomes : Create(c, o))
  /\ SF_vars(SweepLock)
  /\ WF_vars(\E t \in Tokens : SweepEntry(t))
  /\ WF_vars(SweepUnlock)

SpecCacheFair == Init /\ [][LiveNext]_vars /\ Fairness

InitShared ==
  /\ CacheInit /\ InvokeInit /\ BuildInit /\ RegInit /\ OpenInit /\ ResolveInit
  /\ SharedInit /\ EngineInit

SpecShared == InitShared /\ [][SharedNext]_vars

SpecEngine == Init /\ [][EngineNext]_vars

\* the session whose events nobody reads.  A stream handler only takes
\* events out of the channel, so this is the session in which a send finds
\* least room.  The Run goroutine goes on whenever it can: the model and the
\* tools answer, and a send goes through once the channel has room.
AloneNext ==
  \/ \E msg \in Messages, engineErr \in BOOLEAN : StartChat(msg, engineErr)
  \/ RunNext

SpecEngineAlone == Init /\ [][AloneNext]_vars /\ WF_vars(RunNext)

SpecCache == Init /\ [][CacheNext]_vars

SpecInvoke == Init /\ [][InvokeNext]_vars

SpecBuild == Init /\ [][BuildNext]_vars

(***************************************************************************)
(* Properties of one invocation, checked under SpecInvoke.                 *)
(***************************************************************************)
Min(S) == CHOOSE x \in S : \A y \in S : x <= y

\* the configuration the invoked tool was built from
ConfigOf(t) == CHOOSE cfg \in ToolConfigs : cfg.Name = t.Name
Declared(t) == ConfigOf(t).TemplateParameters \o ConfigOf(t).Parameters

ParameterErrors == {"MissingParameter", "TypeMismatch", "AuthParameterUnresolved"}
Validated == Len(calls) >= 2 /\ calls[2] = "ParseParams"
ParseFailed == stage = "Failed" /\ calls = <<"Authorized", "ParseParams">>

\* what section 4.1 says of one declared parameter, for the request at hand
Verdict(p) ==
  IF p.authServices # <<>>
    THEN IF \E j \in 1..Len(p.authServices) :
              p.authServices[j].name \in DOMAIN claimsMap
           THEN "ok" ELSE "AuthParameterUnresolved"
  ELSE IF p.name \notin DOMAIN data
    THEN IF p.required THEN "MissingParameter" ELSE "ok"
  ELSE IF p.type = data[p.name].t \/ (p.type = "float" /\ data[p.name].t = "integer")
    THEN "ok" ELSE "TypeMismatch"
Offenders(ps) == {i \in 1..Len(ps) : Verdict(ps[i]) # "ok"}

\* C5: Tool.Authorized returns true exactly when every service of the tool's
\* authRequired is in the verified set; with an empty authRequired it is
\* true for every verified set, the empty one included.
C5_AuthorizedIffAllRequiredVerified ==
  authz # "unset" =>
    /\ authz = "yes" <=> Range(tool.AuthRequired) \subseteq DOMAIN claimsMap
    /\ tool.AuthRequired = <<>> => authz = "yes"
C5_Witness ==
  /\ authz = "no"
  /\ Len(tool.AuthRequired) = 2
  /\ DOMAIN claimsMap = {"my-google-auth-service"}

\* C6: the tool-level check runs first.  When the configured authRequired
\* is not satisfied the invocation ends with ToolNotAuthorized and nothing
\* else was attempted: no parameter resolution, no template resolution, no
\* backend call.  When it is satisfied the invocation goes on to parameter
\* resolution.
C6_AuthorizationBeforeParameters ==
  LET satisfied ==
        Range(ConfigOf(tool).AuthRequired) \subseteq DOMAIN claimsMap IN
  Len(calls) >= 1 =>
    /\ calls[1] = "Authorized"
    /\ ~satisfied =>
         /\ stage = "Failed" /\ err = "ToolNotAuthorized"
         /\ calls = <<"Authorized">>
         /\ params = <<>> /\ stmt = <<>> /\ boundMap = <<>> /\ out = <<>>
    /\ satisfied =>
         /\ err # "ToolNotAuthorized"
         /\ \/ stage = "Authorized" /\ Len(calls) = 1
            \/ Validated
C6_Witness ==
  /\ stage = "Failed" /\ err = "ToolNotAuthorized"
  /\ tool.Name = "my-auth-required-param-tool"
  /\ "name" \notin DOMAIN data
  /\ DOMAIN claimsMap = {"other-auth-service"}

C8_FirstVerifiedBinding ==
  Validated =>
    \A i \in 1..Len(tool.AllParams) :
      LET p == tool.AllParams[i]
          verifiedAt == {j \in 1..Len(p.authServices) :
                           p.authServices[j].name \in DOMAIN claimsMap}
      IN p.authServices # <<>> =>
           IF verifiedAt = {}
             THEN /\ ParseFailed
                  /\ Offenders(tool.AllParams) = {i}
                       => err = "AuthParameterUnresolved"
             ELSE /\ Offenders(tool.AllParams) = {} => ~ParseFailed
                  /\ ~ParseFailed =>
                       LET b == p.authServices[Min(verifiedAt)] IN
                       /\ params[i].name = p.name
                       /\ params[i].value = claimsMap[b.name][b.field]
C8_Witness ==
  /\ Validated /\ ~ParseFailed
  /\ tool.Name = "my-auth-tool"
  /\ DOMAIN claimsMap = AuthServices
  /\ "email" \in DOMAIN data
  /\ params[1].value = ClaimsOf("my-google-auth-service").email

\* the raw input with the value under name n replaced by v, or removed
WithValue(d, n, v) == [x \in DOMAIN d \cup {n} |-> IF x = n THEN v ELSE d[x]]
Without(d, n) == [x \in DOMAIN d \ {n} |-> d[x]]
Variants(d, n) == {WithValue(d, n, v) : v \in InputValues} \cup {Without(d, n)}

\* C9: the outcome of a resolution does not depend on what the raw input
\* carries under the name of an auth-bound parameter: with the same
\* verified claims, every raw input that differs from the one received
\* only under such a name has the same outcome, the same error or the same
\* ParamValues.
C9_AuthBoundIgnoresRawInput ==
  Validated =>
    \A i \in 1..Len(Declared(tool)) :
      Declared(tool)[i].authServices # <<>> =>
        \A d \in Variants(data, Declared(tool)[i].name) :
          LET r == ToolParseParams(tool, d, claimsMap) IN
          IF ParseFailed THEN r.err = err
          ELSE r.err = "none" /\ r.values = params
C9_Witness ==
  /\ Validated /\ ~ParseFailed
  /\ tool.Name = "my-auth-tool"
  /\ "email" \in DOMAIN data
  /\ data["email"] # params[1].value

\* the request leaves out a template parameter the tool declares
OmitsTemplateParameter ==
  \E i \in 1..Len(tool.TemplateParameters) :
    tool.TemplateParameters[i].name \notin DOMAIN data

StepsInOrder == <<"Authorized", "ParseParams", "ResolveTemplateParams",
                  "Prepare", "getParams", "Execute">>
Before(a, b) ==
  \A j \in 1..Len(calls) :
    calls[j] = b => \E i \in 1..(j - 1) : calls[i] = a

C12_NoPlaceholderRemains ==
  (\E i \in 1..Len(calls) : calls[i] = "ResolveTemplateParams") =>
    /\ ~OmitsTemplateParameter
    /\ err # "MissingTemplateParameter"
    /\ Len(stmt) = Len(tool.Statement)
    /\ \A i \in 1..Len(stmt) :
         /\ ~IsHole(stmt[i])
         /\ IF IsHole(tool.Statement[i])
              THEN stmt[i] = Lit(data[tool.Statement[i].ph].v)
              ELSE stmt[i] = tool.Statement[i]
C12_Witness ==
  /\ stage = "TemplateResolved"
  /\ tool.Name = "select-filter-templateParams-tool"
  /\ stmt[2] = Lit("user") /\ stmt[4] = Lit("user")

C14_ZeroRowsIsSuccess ==
  /\ [](stage = "Completed" => err = "none" /\ errMsg = <<>>)
  /\ [][(/\ stage = "Iterating" /\ rowsLeft = 0
         /\ calls[Len(calls)] = "Execute"
         /\ stage' # stage)
        => (stage' = "Completed" /\ err' = "none" /\ out' = <<>>)]_vars
C14_Witness ==
  /\ stage = "Completed"
  /\ calls[Len(calls)] = "Execute"
  /\ out = <<>> /\ err = "none"

\* C15: when fetching or converting a row fails, Invoke hands back the
\* error and the nil collection, however many rows it had read before.
C15_NoPartialRows ==
  [][(stage = "Iterating" /\ stage' = "Failed") =>
       /\ err' \in {"RowError", "SliceError"}
       /\ out' = <<>>]_vars
C15_Witness ==
  /\ stage = "Failed"
  /\ err = "SliceError"
  /\ Len(tuples) = MaxRows
  /\ out = <<>>

\* conn.Execute handed Invoke a result set
HasResult ==
  /\ \E i \in 1..Len(calls) : calls[i] = "Execute"
  /\ err # "ExecuteError"

\* C16: once execution produced a result, Invoke returns, on success, on a
\* row error, with the context cancelled or not, with the result set and
\* every row tuple it obtained closed exactly once; nothing is closed while
\* the rows are still being read, and nothing is closed without a result.
C16_ReleasedExactlyOnce ==
  /\ (HasResult /\ stage \in {"Failed", "Completed"}) =>
       /\ resultCloses = 1
       /\ \A i \in 1..Len(tuples) : tuples[i] = 1
  /\ (HasResult /\ stage = "Iterating") =>
       /\ resultCloses = 0
       /\ \A i \in 1..Len(tuples) : tuples[i] = 0
  /\ ~HasResult => resultCloses = 0 /\ tuples = <<>>
C16_Witness ==
  /\ stage = "Failed"
  /\ err = "SliceError"
  /\ cancelled
  /\ tuples = <<1, 1>>
  /\ resultCloses = 1

\* the steps inside Invoke: pipeline stages 1-4 and the fetch of a row
InvokeSteps == {"ResolveTemplateParams", "Prepare", "getParams", "Execute",
                "Next"}

\* C17: once the invocation's context is cancelled the pipeline runs no
\* further stage, and during row iteration it fetches no further row from
\* the backend.
C17_NoStepAfterCancellation ==
  [][cancelled =>
       ~(/\ Len(calls') = Len(calls) + 1
         /\ calls'[Len(calls')] \in InvokeSteps)]_vars

\* C18: the error Invoke returns for a failed statement preparation or
\* execution has in its text the name of the failing tool and the message
\* of the backend, and it ends the invocation.
C18_BackendErrorNamesTool ==
  err \in {"PrepareError", "ExecuteError"} =>
    /\ stage = "Failed"
    /\ tool.Name \in Range(errMsg)
    /\ \E m \in BackendMessages : m \in Range(errMsg)

C20_AcceptedByCapabilityOnly ==
  (build # NoBuild /\ build.source \in DOMAIN srcs) =>
    \A k \in SourceKinds :
      srcs[build.source].kind = k =>
        (build.err = "none" <=> "KuzuDB" \in srcs[build.source].methods)
C20_Witness ==
  /\ build.err = "none"
  /\ build.tool # NoTool
  /\ srcs[build.source].kind = "kuzudb"

\* C21: a source holds the one connection handle it opened when it was
\* initialized and keeps it; every tool built against the source holds that
\* same handle, building a tool opens no connection, and an invocation
\* takes its tool's handle and replaces nothing.
C21_OneSharedHandle ==
  /\ [](/\ opened = Cardinality(DOMAIN srcs)
        /\ \A n, m \in DOMAIN srcs :
             n # m => KuzuDB(srcs[n]) # KuzuDB(srcs[m])
        /\ \A x \in DOMAIN toolsBuilt :
             toolsBuilt[x].Connection = KuzuDB(srcs[toolsBuilt[x].source])
        /\ connUsed # NoConnection =>
             \E x \in DOMAIN toolsBuilt : toolsBuilt[x].Connection = connUsed)
  /\ [][/\ \A n \in DOMAIN srcs :
             n \in DOMAIN srcs' /\ KuzuDB(srcs'[n]) = KuzuDB(srcs[n])
       /\ (toolsBuilt' # toolsBuilt \/ connUsed' # connUsed) =>
             (opened' = opened /\ srcs' = srcs)
       /\ \A x \in DOMAIN toolsBuilt :
             x \in DOMAIN toolsBuilt' /\ toolsBuilt'[x] = toolsBuilt[x]]_vars
C21_Witness ==
  /\ DOMAIN toolsBuilt = {"my-simple-tool", "my-param-tool"}
  /\ toolsBuilt["my-simple-tool"].source = toolsBuilt["my-param-tool"].source
  /\ toolsBuilt["my-simple-tool"].Connection =
       toolsBuilt["my-param-tool"].Connection
  /\ connUsed = toolsBuilt["my-param-tool"].Connection
  /\ Cardinality(DOMAIN srcs) = 2
  /\ opened = 2

\* C22: from the moment a built tool is handed to a request, no step of the
\* request (Authorized, ParseParams, Invoke) changes any field of the tool:
\* it stays the value Config.Initialize built from its configuration, and
\* Manifest and McpManifest return the manifests computed at construction.
C22_ToolStaysAsBuilt ==
  /\ [](stage # "Idle" =>
          /\ tool = Initialize(ConfigOf(tool))
          /\ Manifest(tool) =
               [Parameters |-> ParamManifest(Declared(tool)),
                AuthRequired |-> ConfigOf(tool).AuthRequired]
          /\ McpManifest(tool) =
               [Name |-> ConfigOf(tool).Name,
                InputSchema |-> ParamManifest(Declared(tool))])
  /\ [][stage # "Idle" => tool' = tool]_vars
C22_Witness ==
  /\ stage = "Completed"
  /\ tool.TemplateParameters # <<>>
  /\ stmt # tool.Statement
  /\ out # <<>>
  /\ Manifest(tool).Parameters # <<>>

\* C23: a Register call for a kind that is already registered returns false
\* and changes no registry: the kind keeps its first factory and every
\* other binding stays; the init() that made the call panics.  A call for a
\* kind that is free returns true and enters just that binding.
C23_DuplicateKindRejected ==
  [][regCall' # regCall =>
       LET c == regCall' IN
         IF c.kind \in DOMAIN registries[c.reg]
           THEN /\ ~c.ok
                /\ registries' = registries
                /\ panicked'
           ELSE /\ c.ok
                /\ DOMAIN registries'[c.reg] = DOMAIN registries[c.reg] \cup {c.kind}
                /\ registries'[c.reg][c.kind] = c.factory
                /\ \A reg \in RegistryNames :
                     \A k \in DOMAIN registries[reg] :
                       registries'[reg][k] = registries[reg][k]]_vars
C23_Witness ==
  /\ ~regCall.ok
  /\ regCall.reg = "sources"
  /\ regCall.kind = "kuzu"
  /\ regCall.factory = "kuzudb.newConfig"
  /\ registries["sources"]["kuzu"] = "kuzu.newConfig"
  /\ "kuzudb" \in DOMAIN registries["sources"]
  /\ toolKind \in DOMAIN registries["tools"]

\* C24: in every tool that has been built, the template parameters followed
\* by the parameters hold no two parameters of the same name.
C24_MergedNamesDistinct ==
  \A x \in DOMAIN toolsBuilt :
    LET merged == toolsBuilt[x].tool.TemplateParameters
                    \o toolsBuilt[x].tool.Parameters IN
      \A a, b \in 1..Len(merged) : a # b => merged[a].name # merged[b].name

\* C25: while and after the rows are read, Invoke's collection holds one
\* mapping per row the backend produced, in the backend's row order; each
\* mapping has one entry per result column, holding the row's value at that
\* column's position, and its entries come in the backend's column order.
C25_RowsAreOrderedColumnMaps ==
  stage \in {"Iterating", "Completed"} =>
    LET cols == GetColumnNames(tool) IN
      /\ Len(out) = Len(tuples)
      /\ \A k \in 1..Len(out) :
           /\ DOMAIN out[k] = Range(cols)
           /\ Cardinality(DOMAIN out[k]) = Len(cols)
           /\ \A i \in 1..Len(cols) : out[k][cols[i]] = GetAsSlice(k, cols)[i]
           /\ \A o \in KeyOrders(out[k]) : o = cols

\* C26: a Kuzu source is opened with the compression setting its
\* configuration gives, on or off, with the read-only setting it gives, and
\* with each size or thread count it configures.
C26_SystemFieldsTakeConfiguredValues ==
  opening.conn =>
    /\ opening.systemConfig.EnableCompression = opening.config.EnableCompression
    /\ opening.systemConfig.ReadOnly = opening.config.ReadOnly
    /\ opening.config.BufferPoolSize # 0 =>
         opening.systemConfig.BufferPoolSize = opening.config.BufferPoolSize
    /\ opening.config.MaxNumThreads # 0 =>
         opening.systemConfig.MaxNumThreads = opening.config.MaxNumThreads
    /\ opening.config.MaxDbSize # 0 =>
         opening.systemConfig.MaxDbSize = opening.config.MaxDbSize

C27_LiveEntryIsKept ==
  [][\A t \in Tokens :
       /\ (clients[t] # NoEntry /\ now < clients[t].expiry) =>
            (clients'[t] = clients[t])
       /\ (clients'[t] # clients[t] /\ clients'[t] # NoEntry) =>
            (/\ clients'[t].expiry = now + ExpiryMinutes
             /\ clients'[t].client = Len(built'))]_vars
C27_Witness ==
  /\ Len(built) = 2
  /\ built[1].token = built[2].token
  /\ built[1].ok /\ built[2].ok
  /\ clients[built[2].token] # NoEntry
  /\ clients[built[2].token].client = 2
  /\ closed[1] = 0
  /\ now >= ExpiryMinutes

\* C28: an entry's expiry is set when its client is stored and never
\* changes while that client is in the cache; a call that hits a live entry,
\* on the fast path or after the double check, returns the cached client
\* and changes nothing in the cache, and it hits only before the expiry the
\* entry was stored with.
C28_ExpiryFixedAtConstruction ==
  [][/\ \A t \in Tokens :
          (/\ clients[t] # NoEntry
           /\ clients'[t] # NoEntry
           /\ clients'[t].client = clients[t].client) =>
            (clients'[t].expiry = clients[t].expiry)
     /\ \A c \in Callers :
          (/\ pc[c] \in {"rlocked", "locked"}
           /\ pc'[c] = "idle") =>
            (/\ clients' = clients
             /\ clients[arg[c]] # NoEntry
             /\ now < clients[arg[c]].expiry
             /\ ret'[c] = [kind |-> "client",
                           client |-> clients[arg[c]].client])]_vars
C28_Witness ==
  /\ Len(built) = 1
  /\ \A c \in Callers :
       /\ pc[c] = "idle"
       /\ ret[c] = [kind |-> "client", client |-> 1]
       /\ arg[c] = built[1].token
  /\ clients[built[1].token] # NoEntry
  /\ clients[built[1].token].expiry = ExpiryMinutes
  /\ now = ExpiryMinutes - SweepIntervalMinutes

\* C30: when every template parameter of the tool has a value, the text
\* given to conn.Prepare is the tool's statement with each placeholder
\* replaced by the caller's string as it is, whatever the string holds, kept
\* as plain text even where it reads like a placeholder, and with the rest
\* of the statement unchanged; no string is refused.
C30_SinglePassVerbatim ==
  resolved.called =>
    LET st == resolved.statement
        m == resolved.paramsMap
        declared == {p.name : p \in Range(ConfigOf([Name |-> resolved.tool]).TemplateParameters)}
    IN IF declared \subseteq DOMAIN m
         THEN /\ resolved.err = "none"
              /\ Len(resolved.prepared) = Len(st)
              /\ \A i \in 1..Len(st) :
                   resolved.prepared[i] =
                     IF IsHole(st[i]) /\ st[i].ph \in DOMAIN m
                       THEN Lit(m[st[i].ph].v)
                       ELSE st[i]
         ELSE /\ resolved.err = "MissingTemplateParameter"
              /\ resolved.prepared = <<>>
C30_Witness ==
  /\ resolved.called
  /\ resolved.tool = "select-filter-templateParams-tool"
  /\ resolved.err = "none"
  /\ resolved.paramsMap["tableName"].v = "{{.edgeFilter}}"
  /\ resolved.paramsMap["edgeFilter"].v = "user) detach delete (u"
  /\ resolved.prepared[2] = Lit("{{.edgeFilter}}")
  /\ resolved.prepared[4] = Lit("user) detach delete (u")

\* C31: a client that GetOrCreateClient returns to a call was constructed
\* for the project and location of that call, also when the callers act for
\* sources of different projects and present the same token.
C31_ClientIsOfCallersProject ==
  \A c \in Callers :
    ret[c].kind = "client" => built[ret[c].client].project = project[c]

\* C32: a client that was constructed and is no longer held by any cache
\* entry has been closed, whether the sweep removed its entry or
\* GetOrCreateClient put a new client in its place.
C32_ClientOutOfCacheIsClosed ==
  \A i \in 1..Len(built) :
    (built[i].ok /\ \A t \in Tokens : clients[t].client # i) => closed[i] >= 1

\* C33: no client is closed while an invocation that got it from
\* GetOrCreateClient is still using it.
C33_NoCloseWhileInUse ==
  \A c \in Callers : using[c] => closed[ret[c].client] = 0

\* C34: under the scheduling above, every GetOrCreateClient call that has
\* begun returns, with a client or with an error, every sweep pass that has
\* begun ends, and the lock is free again whenever nobody is inside.
C34_CallsAndSweepsEnd ==
  /\ \A c \in Callers :
       (pc[c] # "idle") ~> (pc[c] = "idle" /\ ret[c].kind \in {"client", "err"})
  /\ (sweepPc = "sweeping") ~> (sweepPc = "waiting")
  /\ []((sweepPc = "waiting"
         /\ \A c \in Callers : pc[c] \in {"idle", "missed"})
        => (muWriter = "none" /\ muReaders = {}))
C34_Witness ==
  /\ sweepPc = "sweeping"
  /\ pc["g1"] = "missed"
  /\ pc["g2"] = "missed"
  /\ arg["g1"] # arg["g2"]
  /\ Len(built) = 1

(***************************************************************************)
(* Properties of the chat agent, checked under SpecEngine and              *)
(* SpecEngineAlone.                                                        *)
(***************************************************************************)
Types(q) == {q[i] : i \in 1..Len(q)}

\* C35: a run never counts more than maxToolRuns tool-call attempts, calls
\* to unknown names included, never asks the model more than
\* maxToolRuns + 1 times, and, with the model and the tools answering,
\* every run that was started returns.
C35_RunEndsWithinTheLimit ==
  /\ [](toolRuns <= maxToolRuns /\ modelCalls <= maxToolRuns + 1)
  /\ (runPc = "seed") ~> (runPc = "exited")
\* a run that used up the limit with unknown names alone and asked the
\* model once more
C35_Witness ==
  /\ runPc = "exited"
  /\ toolRuns = maxToolRuns
  /\ modelCalls = maxToolRuns + 1
  /\ "tool_call" \notin Types(sent)

\* C36: a run never sends more events than the session's channel holds, no
\* send of a run finds the channel full, and a run whose events nobody
\* reads still returns, with all its events lying in the channel.
C36_SendsNeverWait ==
  /\ [](chat = "200" => Len(sent) <= chanCap)
  /\ [](pending # <<>> => Len(events) < chanCap)
  /\ (runPc = "seed") ~> (runPc = "exited" /\ events = sent)
\* the longest run: five answers with one tool call that succeeds, and a
\* sixth with a tool call that meets the limit
C36_Witness ==
  /\ runPc = "exited"
  /\ events = sent
  /\ Len(sent) = 3 * maxToolRuns + 4
  /\ chanCap = Capacity

\* C37: the sink is closed once, when Run returns, on every path, after
\* the run's last event, and nothing is sent after it; the first event of a
\* run is the user event; the stream handler writes the events out in the
\* order they were sent, it ends on the closed channel only when it has
\* written them all, and on a closed and empty channel it can end.
C37_ClosedOnceAfterTheLastEvent ==
  /\ [](closes <= 1)
  /\ [](runPc = "exited" => (closes = 1 /\ pending = <<>>))
  /\ [](sent # <<>> => sent[1] = "user")
  /\ [](received \o events = sent)
  /\ [](reader = "finished" => (closes = 1 /\ received = sent))
  /\ []((reader = "streaming" /\ closes = 1 /\ events = <<>>)
         => ENABLED StreamFinished)
  /\ [][(closes > 0 => sent' = sent)
         /\ (closes' # closes => (pending = <<>> /\ runPc' = "exited"))]_vars
\* the stream handler has written out the longest run and ended on the
\* closed channel
C37_Witness ==
  /\ reader = "finished"
  /\ closes = 1
  /\ Len(received) = 3 * maxToolRuns + 4
  /\ received[1] = "user"

\* C38: when the sink is closed, the last event sent is a done event, and a
\* done event is followed by no other.
C38_LastEventIsDone ==
  /\ closes > 0 => (sent # <<>> /\ sent[Len(sent)] = "done")
  /\ \A i \in 1..Len(sent) : sent[i] = "done" => i = Len(sent)

====
